---- MODULE Spec2Model ----
(***************************************************************************)
(* A model of warp/native/noise.h: Perlin noise in 1-4 dimensions, its     *)
(* analytic gradient, the periodic variant, curl noise, and the adjoint    *)
(* (reverse-mode) bindings that accumulate into caller-owned storage.      *)
(*                                                                         *)
(* Numbers.  A float is modelled as an exact rational <<n, d>> in lowest   *)
(* terms with d > 0.  uint32 values are modelled as two 16-bit limbs       *)
(* <<hi, lo>> so that all unsigned arithmetic is taken mod 2^32.  int      *)
(* values (lattice indices, periods) are integers.                         *)
(***************************************************************************)
EXTENDS Integers, Sequences, FiniteSets, TLC

(***************************************************************************)
(* Bounds of the model.                                                    *)
(***************************************************************************)
\* caller seeds are 0 .. MaxSeed
MaxSeed == 1
\* a sequence run (SpecSeq) makes at most MaxCalls calls
MaxCalls == 3
\* per-axis periods handed to pnoise / adj_pnoise are -1 .. MaxPeriod
MaxPeriod == 2
\* upstream sensitivities adj_ret are 1 and -1 .. -MaxAdj
MaxAdj == 1
\* 1D coordinates are n/4 and 2D coordinates n/2, |n/2| <= MaxC/2
MaxC == 2
\* 3D and 4D coordinates lie on three lines of half-integers n/2 and one line of
\* integer points n, n in -MaxCHi .. MaxCHi
MaxCHi == 1
\* a pnoise coordinate is moved by -MaxShift .. MaxShift periods
MaxShift == 2
\* function runs: blend parameters reach MaxT/8 beyond the two ends of [0, 1]
MaxT == 4
\* function runs: low corner indices are -1 .. MaxCell (and ascending from there)
MaxCell == 0

(***************************************************************************)
(* Rational arithmetic (the model of float).                               *)
(***************************************************************************)
RECURSIVE GCD(_, _)
GCD(a, b) == IF b = 0 THEN a ELSE GCD(b, a % b)

Abs(i) == IF i < 0 THEN -i ELSE i

Lowest(n, d, g) == <<n \div g, d \div g>>

\* n/d (d > 0) in lowest terms
Norm[n \in Int, d \in Int] == Lowest(n, d, GCD(Abs(n), d))

Rat == Int \X Int

R(n, d) == Norm[n, d]
Zero == <<0, 1>>
One == <<1, 1>>
\* float +, - and *
RAdd[a \in Rat, b \in Rat] == Norm[a[1] * b[2] + b[1] * a[2], a[2] * b[2]]
RSub[a \in Rat, b \in Rat] == Norm[a[1] * b[2] - b[1] * a[2], a[2] * b[2]]
RMul[a \in Rat, b \in Rat] == Norm[a[1] * b[1], a[2] * b[2]]
RNeg(a) == <<-a[1], a[2]>>
RLt(a, b) == a[1] * b[2] < b[1] * a[2]
\* floor(x) as an int: \div rounds towards minus infinity
Floor(a) == a[1] \div a[2]
IntToR(i) == <<i, 1>>

(***************************************************************************)
(* uint32 arithmetic on 16-bit limbs <<hi, lo>>.                           *)
(***************************************************************************)
W16 == 2^16

U32(n) == <<(n \div W16) % W16, n % W16>>

U32Add(a, b) ==
    LET lo == a[2] + b[2]
        hi == a[1] + b[1] + (lo \div W16)
    IN  <<hi % W16, lo % W16>>

U32Neg(a) ==
    IF a[2] = 0 THEN <<(W16 - a[1]) % W16, 0>>
                ELSE <<W16 - 1 - a[1], W16 - a[2]>>

\* k * a mod 2^32 for a natural k < 2^15
U32MulNat(k, a) ==
    LET lo == k * a[2]
        hi == k * a[1] + (lo \div W16)
    IN  <<hi % W16, lo % W16>>

\* (uint32)i * a mod 2^32 for an int i: a negative i converts to 2^32 - |i|
U32MulInt(i, a) ==
    IF i >= 0 THEN U32MulNat(i, a) ELSE U32Neg(U32MulNat(-i, a))

\* a ^ b on 4-bit values, bit by bit
Xor4(a, b) ==
    ((a + b) % 2) + 2 * (((a \div 2) + (b \div 2)) % 2)
    + 4 * (((a \div 4) + (b \div 4)) % 2) + 8 * (((a \div 8) + (b \div 8)) % 2)

\* a ^ b on 16-bit limbs, four bits at a time
RECURSIVE Xor16(_, _)
Xor16(a, b) ==
    IF a = 0 THEN b
    ELSE IF b = 0 THEN a
    ELSE 16 * Xor16(a \div 16, b \div 16) + Xor4(a % 16, b % 16)

U32Xor(a, b) == <<Xor16(a[1], b[1]), Xor16(a[2], b[2])>>

(***************************************************************************)
(* External primitives (rand.h, builtin.h, vec.h): the pseudo-random       *)
(* draws, the reseed combinator, the integer modulo and the epsilon.       *)
(* noise.h only calls them; they are modelled as fixed deterministic       *)
(* functions of their arguments.                                           *)
(***************************************************************************)
\* randf(state, -1, 1): a value in [-1, 1] determined by the 32-bit state
randf_pm1(state) == R((state[2] % 9) - 4, 4)

\* (cos(phi), sin(phi)) for phi = randf(state, 0, 2*pi): a unit 2-vector
UnitVec2(state) ==
    LET k == state[2] % 8
    IN  CASE k = 0 -> <<<<1, 1>>, <<0, 1>>>>
          [] k = 1 -> <<<<3, 5>>, <<4, 5>>>>
          [] k = 2 -> <<<<0, 1>>, <<1, 1>>>>
          [] k = 3 -> <<<<-4, 5>>, <<3, 5>>>>
          [] k = 4 -> <<<<-1, 1>>, <<0, 1>>>>
          [] k = 5 -> <<<<-3, 5>>, <<-4, 5>>>>
          [] k = 6 -> <<<<0, 1>>, <<-1, 1>>>>
          [] OTHER -> <<<<4, 5>>, <<-3, 5>>>>

\* normalize(vec3(randn(state), randn(state), randn(state))): a unit 3-vector
UnitVec3(state) ==
    LET k == state[2] % 8
    IN  CASE k = 0 -> <<<<1, 1>>, <<0, 1>>, <<0, 1>>>>
          [] k = 1 -> <<<<2, 3>>, <<2, 3>>, <<1, 3>>>>
          [] k = 2 -> <<<<0, 1>>, <<-1, 1>>, <<0, 1>>>>
          [] k = 3 -> <<<<-2, 3>>, <<1, 3>>, <<2, 3>>>>
          [] k = 4 -> <<<<0, 1>>, <<0, 1>>, <<1, 1>>>>
          [] k = 5 -> <<<<1, 3>>, <<-2, 3>>, <<-2, 3>>>>
          [] k = 6 -> <<<<3, 5>>, <<0, 1>>, <<-4, 5>>>>
          [] OTHER -> <<<<-1, 3>>, <<2, 3>>, <<-2, 3>>>>

\* normalize(vec4(randn(state) x 4)): a unit 4-vector
UnitVec4(state) ==
    LET k == state[2] % 8
    IN  CASE k = 0 -> <<<<1, 2>>, <<1, 2>>, <<1, 2>>, <<1, 2>>>>
          [] k = 1 -> <<<<1, 1>>, <<0, 1>>, <<0, 1>>, <<0, 1>>>>
          [] k = 2 -> <<<<-1, 2>>, <<1, 2>>, <<-1, 2>>, <<1, 2>>>>
          [] k = 3 -> <<<<0, 1>>, <<3, 5>>, <<0, 1>>, <<-4, 5>>>>
          [] k = 4 -> <<<<1, 2>>, <<-1, 2>>, <<-1, 2>>, <<1, 2>>>>
          [] k = 5 -> <<<<0, 1>>, <<0, 1>>, <<-1, 1>>, <<0, 1>>>>
          [] k = 6 -> <<<<2, 3>>, <<-1, 3>>, <<0, 1>>, <<2, 3>>>>
          [] OTHER -> <<<<-1, 2>>, <<-1, 2>>, <<1, 2>>, <<-1, 2>>>>

\* rand_init(seed, offset): the reseed combinator, a hash of (seed, offset)
rand_init(seed, offset) ==
    U32Add(U32MulNat(31, seed), U32Add(U32MulNat(7, offset), U32(40503)))

\* _EPSILON: the small fixed threshold of the heaviside selectors
EPSILON == R(1, 1000000)

\* mod(a, b): for a period b >= 1 the non-negative remainder.  A period
\* b <= 0 is outside its contract; the value computed then is the dividend
\* for b = 0 (when the division does not trap) and the truncated remainder
\* for b < 0.
mod(a, b) ==
    IF b >= 1 THEN a % b
    ELSE IF b = 0 THEN a
    ELSE IF a >= 0 THEN a % (-b) ELSE -((-a) % (-b))

(***************************************************************************)
(* Fade kernel and interpolation primitive.                                *)
(***************************************************************************)
\* smootherstep with the coefficients 15 and 10 exchanged
smootherstep_wrong_coefficient(t) ==
    RMul[RMul[RMul[t, t], t],
         RAdd[RMul[t, RSub[RMul[t, <<6, 1>>], <<15, 1>>]], <<15, 1>>]]

smootherstep(t) ==
    RMul[RMul[RMul[t, t], t],
         RAdd[RMul[t, RSub[RMul[t, <<6, 1>>], <<15, 1>>]], <<10, 1>>]]

smootherstep_gradient(t) ==
    RMul[RMul[RMul[<<30, 1>>, t], t],
         RAdd[RMul[t, RSub[t, <<2, 1>>]], One]]

\* interpolate with its two endpoints exchanged
interpolate_from_high(a0, a1, t) ==
    RAdd[RMul[RSub[a0, a1], smootherstep(t)], a1]

interpolate(a0, a1, t) ==
    RAdd[RMul[RSub[a1, a0], smootherstep(t)], a0]

\* interpolate_gradient without the factor d_t on the fade-slope term
interpolate_gradient_without_dt(a0, a1, t, d_a0, d_a1, d_t) ==
    RAdd[RAdd[RMul[RSub[d_a1, d_a0], smootherstep(t)],
              RMul[RSub[a1, a0], smootherstep_gradient(t)]],
         d_a0]

interpolate_gradient(a0, a1, t, d_a0, d_a1, d_t) ==
    RAdd[RAdd[RMul[RSub[d_a1, d_a0], smootherstep(t)],
              RMul[RMul[RSub[a1, a0], smootherstep_gradient(t)], d_t]],
         d_a0]

(***************************************************************************)
(* Lattice gradient generator.                                             *)
(***************************************************************************)
p1 == 73856093
p2 == 19349663
p3 == 53471161
p4 == 10000019

\* random_gradient_1d with the seed combined by XOR
random_gradient_1d_xor_seed(seed, ix) ==
    LET idx == U32MulInt(ix, U32(p1))
        state == U32Xor(seed, idx)
    IN  randf_pm1(state)

random_gradient_1d(seed, ix) ==
    LET idx == U32MulInt(ix, U32(p1))
        state == U32Add(seed, idx)
    IN  randf_pm1(state)

random_gradient_2d(seed, ix, iy) ==
    LET idx == U32Xor(U32MulInt(ix, U32(p1)), U32MulInt(iy, U32(p2)))
        state == U32Add(seed, idx)
    IN  UnitVec2(state)

random_gradient_3d(seed, ix, iy, iz) ==
    LET idx == U32Xor(U32Xor(U32MulInt(ix, U32(p1)), U32MulInt(iy, U32(p2))),
                      U32MulInt(iz, U32(p3)))
        state == U32Add(seed, idx)
    IN  UnitVec3(state)

random_gradient_4d(seed, ix, iy, iz, it) ==
    LET idx == U32Xor(U32Xor(U32Xor(U32MulInt(ix, U32(p1)), U32MulInt(iy, U32(p2))),
                             U32MulInt(iz, U32(p3))),
                      U32MulInt(it, U32(p4)))
        state == U32Add(seed, idx)
    IN  UnitVec4(state)

(***************************************************************************)
(* Dot-product basis of one lattice corner, and its directional            *)
(* derivative.                                                             *)
(***************************************************************************)
dot_grid_gradient_1d(seed, ix, dx) ==
    LET gradient == random_gradient_1d(seed, ix)
    IN  RMul[dx, gradient]

dot_grid_gradient_1d_gradient(seed, ix, d_dx) ==
    LET gradient == random_gradient_1d(seed, ix)
    IN  RMul[d_dx, gradient]

\* dx*gradient[0] + dy*gradient[1]
dot_2d(dx, dy, gradient) ==
    RAdd[RMul[dx, gradient[1]], RMul[dy, gradient[2]]]

dot_grid_gradient_2d(seed, ix, iy, dx, dy) ==
    dot_2d(dx, dy, random_gradient_2d(seed, ix, iy))

dot_grid_gradient_2d_gradient(seed, ix, iy, d_dx, d_dy) ==
    dot_2d(d_dx, d_dy, random_gradient_2d(seed, ix, iy))

\* dx*gradient[0] + dy*gradient[1] + dz*gradient[2]
dot_3d(dx, dy, dz, gradient) ==
    RAdd[RAdd[RMul[dx, gradient[1]], RMul[dy, gradient[2]]], RMul[dz, gradient[3]]]

dot_grid_gradient_3d(seed, ix, iy, iz, dx, dy, dz) ==
    dot_3d(dx, dy, dz, random_gradient_3d(seed, ix, iy, iz))

dot_grid_gradient_3d_gradient(seed, ix, iy, iz, d_dx, d_dy, d_dz) ==
    dot_3d(d_dx, d_dy, d_dz, random_gradient_3d(seed, ix, iy, iz))

\* dx*gradient[0] + dy*gradient[1] + dz*gradient[2] + dt*gradient[3]
dot_4d(dx, dy, dz, dt, gradient) ==
    RAdd[RAdd[RAdd[RMul[dx, gradient[1]], RMul[dy, gradient[2]]],
              RMul[dz, gradient[3]]], RMul[dt, gradient[4]]]

dot_grid_gradient_4d(seed, ix, iy, iz, it, dx, dy, dz, dt) ==
    dot_4d(dx, dy, dz, dt, random_gradient_4d(seed, ix, iy, iz, it))

dot_grid_gradient_4d_gradient(seed, ix, iy, iz, it, d_dx, d_dy, d_dz, d_dt) ==
    dot_4d(d_dx, d_dy, d_dz, d_dt, random_gradient_4d(seed, ix, iy, iz, it))

\* noise_1d with the offset of the high corner not reduced by 1
noise_1d_same_offset(seed, x0, x1, dx) ==
    LET v0 == dot_grid_gradient_1d(seed, x0, dx)
        v1 == dot_grid_gradient_1d(seed, x1, dx)
    IN  interpolate(v0, v1, dx)

\* noise.h lines 138-145
noise_1d(seed, x0, x1, dx) ==
    LET v0 == dot_grid_gradient_1d(seed, x0, dx)
        v1 == dot_grid_gradient_1d(seed, x1, RSub[dx, One])
    IN  interpolate(v0, v1, dx)

\* noise.h lines 147-156
noise_1d_gradient(seed, x0, x1, dx, heaviside_x) ==
    LET v0 == dot_grid_gradient_1d(seed, x0, dx)
        d_v0_dx == dot_grid_gradient_1d_gradient(seed, x0, heaviside_x)
        v1 == dot_grid_gradient_1d(seed, x1, RSub[dx, One])
        d_v1_dx == dot_grid_gradient_1d_gradient(seed, x1, heaviside_x)
    IN  interpolate_gradient(v0, v1, dx, d_v0_dx, d_v1_dx, heaviside_x)

\* noise_2d with the offset of the high x corner of the lower row not reduced by 1
noise_2d_same_offset(seed, x0, y0, x1, y1, dx, dy) ==
    LET v00 == dot_grid_gradient_2d(seed, x0, y0, dx, dy)
        v10 == dot_grid_gradient_2d(seed, x1, y0, dx, dy)
        xi0 == interpolate(v00, v10, dx)
        v01 == dot_grid_gradient_2d(seed, x0, y1, dx, RSub[dy, One])
        v11 == dot_grid_gradient_2d(seed, x1, y1, RSub[dx, One], RSub[dy, One])
        xi1 == interpolate(v01, v11, dx)
    IN  interpolate(xi0, xi1, dy)

\* noise.h lines 158-170
noise_2d(seed, x0, y0, x1, y1, dx, dy) ==
    LET v00 == dot_grid_gradient_2d(seed, x0, y0, dx, dy)
        v10 == dot_grid_gradient_2d(seed, x1, y0, RSub[dx, One], dy)
        xi0 == interpolate(v00, v10, dx)
        v01 == dot_grid_gradient_2d(seed, x0, y1, dx, RSub[dy, One])
        v11 == dot_grid_gradient_2d(seed, x1, y1, RSub[dx, One], RSub[dy, One])
        xi1 == interpolate(v01, v11, dx)
    IN  interpolate(xi0, xi1, dy)

\* noise_2d_gradient: its locals are read several times each, so the body is cut at
\* the interpolation stages and the locals of a stage are handed to the next;
\* the stages are listed last to first.
\* noise.h lines 198-201 of noise_2d_gradient
noise_2d_gradient_yi(dy, heaviside_y, xi0, d_xi0_dx, d_xi0_dy, xi1, d_xi1_dx, d_xi1_dy) ==
    LET gradient_x == interpolate_gradient(xi0, xi1, dy, d_xi0_dx, d_xi1_dx, Zero)
        gradient_y == interpolate_gradient(xi0, xi1, dy, d_xi0_dy, d_xi1_dy, heaviside_y)
    IN  <<gradient_x, gradient_y>>

\* noise_2d_gradient blending the upper row of the value path from v11 to v01, the endpoints exchanged
noise_2d_gradient_xi_swapped(dx, dy, heaviside_x, heaviside_y, v00, d_v00_dx, d_v00_dy, v10, d_v10_dx, d_v10_dy, v01, d_v01_dx, d_v01_dy, v11, d_v11_dx, d_v11_dy) ==
    noise_2d_gradient_yi(
        dy, heaviside_y,
        \* xi0
        interpolate(v00, v10, dx),
        \* d_xi0_dx
        interpolate_gradient(v00, v10, dx, d_v00_dx, d_v10_dx, heaviside_x),
        \* d_xi0_dy
        interpolate_gradient(v00, v10, dx, d_v00_dy, d_v10_dy, Zero),
        \* xi1
        interpolate(v11, v01, dx),
        \* d_xi1_dx
        interpolate_gradient(v01, v11, dx, d_v01_dx, d_v11_dx, heaviside_x),
        \* d_xi1_dy
        interpolate_gradient(v01, v11, dx, d_v01_dy, d_v11_dy, Zero))

\* noise.h lines 190-196 of noise_2d_gradient
noise_2d_gradient_xi(dx, dy, heaviside_x, heaviside_y, v00, d_v00_dx, d_v00_dy, v10, d_v10_dx, d_v10_dy, v01, d_v01_dx, d_v01_dy, v11, d_v11_dx, d_v11_dy) ==
    noise_2d_gradient_yi(
        dy, heaviside_y,
        \* xi0
        interpolate(v00, v10, dx),
        \* d_xi0_dx
        interpolate_gradient(v00, v10, dx, d_v00_dx, d_v10_dx, heaviside_x),
        \* d_xi0_dy
        interpolate_gradient(v00, v10, dx, d_v00_dy, d_v10_dy, Zero),
        \* xi1
        interpolate(v01, v11, dx),
        \* d_xi1_dx
        interpolate_gradient(v01, v11, dx, d_v01_dx, d_v11_dx, heaviside_x),
        \* d_xi1_dy
        interpolate_gradient(v01, v11, dx, d_v01_dy, d_v11_dy, Zero))

\* noise.h lines 172-202; lines 174-188: the corner values
noise_2d_gradient(seed, x0, y0, x1, y1, dx, dy, heaviside_x, heaviside_y) ==
    noise_2d_gradient_xi(
        dx, dy, heaviside_x, heaviside_y,
        \* v00
        dot_grid_gradient_2d(seed, x0, y0, dx, dy),
        \* d_v00_dx
        dot_grid_gradient_2d_gradient(seed, x0, y0, heaviside_x, Zero),
        \* d_v00_dy
        dot_grid_gradient_2d_gradient(seed, x0, y0, Zero, heaviside_y),
        \* v10
        dot_grid_gradient_2d(seed, x1, y0, RSub[dx, One], dy),
        \* d_v10_dx
        dot_grid_gradient_2d_gradient(seed, x1, y0, heaviside_x, Zero),
        \* d_v10_dy
        dot_grid_gradient_2d_gradient(seed, x1, y0, Zero, heaviside_y),
        \* v01
        dot_grid_gradient_2d(seed, x0, y1, dx, RSub[dy, One]),
        \* d_v01_dx
        dot_grid_gradient_2d_gradient(seed, x0, y1, heaviside_x, Zero),
        \* d_v01_dy
        dot_grid_gradient_2d_gradient(seed, x0, y1, Zero, heaviside_y),
        \* v11
        dot_grid_gradient_2d(seed, x1, y1, RSub[dx, One], RSub[dy, One]),
        \* d_v11_dx
        dot_grid_gradient_2d_gradient(seed, x1, y1, heaviside_x, Zero),
        \* d_v11_dy
        dot_grid_gradient_2d_gradient(seed, x1, y1, Zero, heaviside_y))

\* noise_3d blending the upper y pair with the x offset
noise_3d_wrong_parameter(seed, x0, y0, z0, x1, y1, z1, dx, dy, dz) ==
    LET v000 == dot_grid_gradient_3d(seed, x0, y0, z0, dx, dy, dz)
        v100 == dot_grid_gradient_3d(seed, x1, y0, z0, RSub[dx, One], dy, dz)
        xi00 == interpolate(v000, v100, dx)
        v010 == dot_grid_gradient_3d(seed, x0, y1, z0, dx, RSub[dy, One], dz)
        v110 == dot_grid_gradient_3d(seed, x1, y1, z0, RSub[dx, One], RSub[dy, One], dz)
        xi10 == interpolate(v010, v110, dx)
        yi0 == interpolate(xi00, xi10, dy)
        v001 == dot_grid_gradient_3d(seed, x0, y0, z1, dx, dy, RSub[dz, One])
        v101 == dot_grid_gradient_3d(seed, x1, y0, z1, RSub[dx, One], dy, RSub[dz, One])
        xi01 == interpolate(v001, v101, dx)
        v011 == dot_grid_gradient_3d(seed, x0, y1, z1, dx, RSub[dy, One], RSub[dz, One])
        v111 == dot_grid_gradient_3d(seed, x1, y1, z1, RSub[dx, One], RSub[dy, One], RSub[dz, One])
        xi11 == interpolate(v011, v111, dx)
        yi1 == interpolate(xi01, xi11, dx)
    IN  interpolate(yi0, yi1, dz)

\* noise.h lines 204-228
noise_3d(seed, x0, y0, z0, x1, y1, z1, dx, dy, dz) ==
    LET v000 == dot_grid_gradient_3d(seed, x0, y0, z0, dx, dy, dz)
        v100 == dot_grid_gradient_3d(seed, x1, y0, z0, RSub[dx, One], dy, dz)
        xi00 == interpolate(v000, v100, dx)
        v010 == dot_grid_gradient_3d(seed, x0, y1, z0, dx, RSub[dy, One], dz)
        v110 == dot_grid_gradient_3d(seed, x1, y1, z0, RSub[dx, One], RSub[dy, One], dz)
        xi10 == interpolate(v010, v110, dx)
        yi0 == interpolate(xi00, xi10, dy)
        v001 == dot_grid_gradient_3d(seed, x0, y0, z1, dx, dy, RSub[dz, One])
        v101 == dot_grid_gradient_3d(seed, x1, y0, z1, RSub[dx, One], dy, RSub[dz, One])
        xi01 == interpolate(v001, v101, dx)
        v011 == dot_grid_gradient_3d(seed, x0, y1, z1, dx, RSub[dy, One], RSub[dz, One])
        v111 == dot_grid_gradient_3d(seed, x1, y1, z1, RSub[dx, One], RSub[dy, One], RSub[dz, One])
        xi11 == interpolate(v011, v111, dx)
        yi1 == interpolate(xi01, xi11, dy)
    IN  interpolate(yi0, yi1, dz)

\* noise_3d_gradient: its locals are read several times each, so the body is cut at
\* the interpolation stages and the locals of a stage are handed to the next;
\* the stages are listed last to first.
\* noise.h lines 302-306 of noise_3d_gradient
noise_3d_gradient_zi(dz, heaviside_z, yi0, d_yi0_dx, d_yi0_dy, d_yi0_dz, yi1, d_yi1_dx, d_yi1_dy, d_yi1_dz) ==
    LET gradient_x == interpolate_gradient(yi0, yi1, dz, d_yi0_dy, d_yi1_dy, Zero)
        gradient_y == interpolate_gradient(yi0, yi1, dz, d_yi0_dx, d_yi1_dx, Zero)
        gradient_z == interpolate_gradient(yi0, yi1, dz, d_yi0_dz, d_yi1_dz, heaviside_z)
    IN  <<gradient_x, gradient_y, gradient_z>>

\* noise.h lines 292-300 of noise_3d_gradient
noise_3d_gradient_yi(dy, dz, heaviside_y, heaviside_z, xi00, d_xi00_dx, d_xi00_dy, d_xi00_dz, xi10, d_xi10_dx, d_xi10_dy, d_xi10_dz, xi01, d_xi01_dx, d_xi01_dy, d_xi01_dz, xi11, d_xi11_dx, d_xi11_dy, d_xi11_dz) ==
    noise_3d_gradient_zi(
        dz, heaviside_z,
        \* yi0
        interpolate(xi00, xi10, dy),
        \* d_yi0_dx
        interpolate_gradient(xi00, xi10, dy, d_xi00_dx, d_xi10_dx, Zero),
        \* d_yi0_dy
        interpolate_gradient(xi00, xi10, dy, d_xi00_dy, d_xi10_dy, heaviside_y),
        \* d_yi0_dz
        interpolate_gradient(xi00, xi10, dy, d_xi00_dz, d_xi10_dz, Zero),
        \* yi1
        interpolate(xi01, xi11, dy),
        \* d_yi1_dx
        interpolate_gradient(xi01, xi11, dy, d_xi01_dx, d_xi11_dx, Zero),
        \* d_yi1_dy
        interpolate_gradient(xi01, xi11, dy, d_xi01_dy, d_xi11_dy, heaviside_y),
        \* d_yi1_dz
        interpolate_gradient(xi01, xi11, dy, d_xi01_dz, d_xi11_dz, Zero))

\* noise.h lines 272-290 of noise_3d_gradient
noise_3d_gradient_xi(dx, dy, dz, heaviside_x, heaviside_y, heaviside_z, v000, d_v000_dx, d_v000_dy, d_v000_dz, v100, d_v100_dx, d_v100_dy, d_v100_dz, v010, d_v010_dx, d_v010_dy, d_v010_dz, v110, d_v110_dx, d_v110_dy, d_v110_dz, v001, d_v001_dx, d_v001_dy, d_v001_dz, v101, d_v101_dx, d_v101_dy, d_v101_dz, v011, d_v011_dx, d_v011_dy, d_v011_dz, v111, d_v111_dx, d_v111_dy, d_v111_dz) ==
    noise_3d_gradient_yi(
        dy, dz, heaviside_y, heaviside_z,
        \* xi00
        interpolate(v000, v100, dx),
        \* d_xi00_dx
        interpolate_gradient(v000, v100, dx, d_v000_dx, d_v100_dx, heaviside_x),
        \* d_xi00_dy
        interpolate_gradient(v000, v100, dx, d_v000_dy, d_v100_dy, Zero),
        \* d_xi00_dz
        interpolate_gradient(v000, v100, dx, d_v000_dz, d_v100_dz, Zero),
        \* xi10
        interpolate(v010, v110, dx),
        \* d_xi10_dx
        interpolate_gradient(v010, v110, dx, d_v010_dx, d_v110_dx, heaviside_x),
        \* d_xi10_dy
        interpolate_gradient(v010, v110, dx, d_v010_dy, d_v110_dy, Zero),
        \* d_xi10_dz
        interpolate_gradient(v010, v110, dx, d_v010_dz, d_v110_dz, Zero),
        \* xi01
        interpolate(v001, v101, dx),
        \* d_xi01_dx
        interpolate_gradient(v001, v101, dx, d_v001_dx, d_v101_dx, heaviside_x),
        \* d_xi01_dy
        interpolate_gradient(v001, v101, dx, d_v001_dy, d_v101_dy, Zero),
        \* d_xi01_dz
        interpolate_gradient(v001, v101, dx, d_v001_dz, d_v101_dz, Zero),
        \* xi11
        interpolate(v011, v111, dx),
        \* d_xi11_dx
        interpolate_gradient(v011, v111, dx, d_v011_dx, d_v111_dx, heaviside_x),
        \* d_xi11_dy
        interpolate_gradient(v011, v111, dx, d_v011_dy, d_v111_dy, Zero),
        \* d_xi11_dz
        interpolate_gradient(v011, v111, dx, d_v011_dz, d_v111_dz, Zero))

\* noise.h lines 230-307; lines 232-270: the corner values
noise_3d_gradient(seed, x0, y0, z0, x1, y1, z1, dx, dy, dz, heaviside_x, heaviside_y, heaviside_z) ==
    noise_3d_gradient_xi(
        dx, dy, dz, heaviside_x, heaviside_y, heaviside_z,
        \* v000
        dot_grid_gradient_3d(seed, x0, y0, z0, dx, dy, dz),
        \* d_v000_dx
        dot_grid_gradient_3d_gradient(seed, x0, y0, z0, heaviside_x, Zero, Zero),
        \* d_v000_dy
        dot_grid_gradient_3d_gradient(seed, x0, y0, z0, Zero, heaviside_y, Zero),
        \* d_v000_dz
        dot_grid_gradient_3d_gradient(seed, x0, y0, z0, Zero, Zero, heaviside_z),
        \* v100
        dot_grid_gradient_3d(seed, x1, y0, z0, RSub[dx, One], dy, dz),
        \* d_v100_dx
        dot_grid_gradient_3d_gradient(seed, x1, y0, z0, heaviside_x, Zero, Zero),
        \* d_v100_dy
        dot_grid_gradient_3d_gradient(seed, x1, y0, z0, Zero, heaviside_y, Zero),
        \* d_v100_dz
        dot_grid_gradient_3d_gradient(seed, x1, y0, z0, Zero, Zero, heaviside_z),
        \* v010
        dot_grid_gradient_3d(seed, x0, y1, z0, dx, RSub[dy, One], dz),
        \* d_v010_dx
        dot_grid_gradient_3d_gradient(seed, x0, y1, z0, heaviside_x, Zero, Zero),
        \* d_v010_dy
        dot_grid_gradient_3d_gradient(seed, x0, y1, z0, Zero, heaviside_y, Zero),
        \* d_v010_dz
        dot_grid_gradient_3d_gradient(seed, x0, y1, z0, Zero, Zero, heaviside_z),
        \* v110
        dot_grid_gradient_3d(seed, x1, y1, z0, RSub[dx, One], RSub[dy, One], dz),
        \* d_v110_dx
        dot_grid_gradient_3d_gradient(seed, x1, y1, z0, heaviside_x, Zero, Zero),
        \* d_v110_dy
        dot_grid_gradient_3d_gradient(seed, x1, y1, z0, Zero, heaviside_y, Zero),
        \* d_v110_dz
        dot_grid_gradient_3d_gradient(seed, x1, y1, z0, Zero, Zero, heaviside_z),
        \* v001
        dot_grid_gradient_3d(seed, x0, y0, z1, dx, dy, RSub[dz, One]),
        \* d_v001_dx
        dot_grid_gradient_3d_gradient(seed, x0, y0, z1, heaviside_x, Zero, Zero),
        \* d_v001_dy
        dot_grid_gradient_3d_gradient(seed, x0, y0, z1, Zero, heaviside_y, Zero),
        \* d_v001_dz
        dot_grid_gradient_3d_gradient(seed, x0, y0, z1, Zero, Zero, heaviside_z),
        \* v101
        dot_grid_gradient_3d(seed, x1, y0, z1, RSub[dx, One], dy, RSub[dz, One]),
        \* d_v101_dx
        dot_grid_gradient_3d_gradient(seed, x1, y0, z1, heaviside_x, Zero, Zero),
        \* d_v101_dy
        dot_grid_gradient_3d_gradient(seed, x1, y0, z1, Zero, heaviside_y, Zero),
        \* d_v101_dz
        dot_grid_gradient_3d_gradient(seed, x1, y0, z1, Zero, Zero, heaviside_z),
        \* v011
        dot_grid_gradient_3d(seed, x0, y1, z1, dx, RSub[dy, One], RSub[dz, One]),
        \* d_v011_dx
        dot_grid_gradient_3d_gradient(seed, x0, y1, z1, heaviside_x, Zero, Zero),
        \* d_v011_dy
        dot_grid_gradient_3d_gradient(seed, x0, y1, z1, Zero, heaviside_y, Zero),
        \* d_v011_dz
        dot_grid_gradient_3d_gradient(seed, x0, y1, z1, Zero, Zero, heaviside_z),
        \* v111
        dot_grid_gradient_3d(seed, x1, y1, z1, RSub[dx, One], RSub[dy, One], RSub[dz, One]),
        \* d_v111_dx
        dot_grid_gradient_3d_gradient(seed, x1, y1, z1, heaviside_x, Zero, Zero),
        \* d_v111_dy
        dot_grid_gradient_3d_gradient(seed, x1, y1, z1, Zero, heaviside_y, Zero),
        \* d_v111_dz
        dot_grid_gradient_3d_gradient(seed, x1, y1, z1, Zero, Zero, heaviside_z))

\* noise.h lines 309-357
noise_4d(seed, x0, y0, z0, t0, x1, y1, z1, t1, dx, dy, dz, dt) ==
    LET v0000 == dot_grid_gradient_4d(seed, x0, y0, z0, t0, dx, dy, dz, dt)
        v1000 == dot_grid_gradient_4d(seed, x1, y0, z0, t0, RSub[dx, One], dy, dz, dt)
        xi000 == interpolate(v0000, v1000, dx)
        v0100 == dot_grid_gradient_4d(seed, x0, y1, z0, t0, dx, RSub[dy, One], dz, dt)
        v1100 == dot_grid_gradient_4d(seed, x1, y1, z0, t0, RSub[dx, One], RSub[dy, One], dz, dt)
        xi100 == interpolate(v0100, v1100, dx)
        yi00 == interpolate(xi000, xi100, dy)
        v0010 == dot_grid_gradient_4d(seed, x0, y0, z1, t0, dx, dy, RSub[dz, One], dt)
        v1010 == dot_grid_gradient_4d(seed, x1, y0, z1, t0, RSub[dx, One], dy, RSub[dz, One], dt)
        xi010 == interpolate(v0010, v1010, dx)
        v0110 == dot_grid_gradient_4d(seed, x0, y1, z1, t0, dx, RSub[dy, One], RSub[dz, One], dt)
        v1110 == dot_grid_gradient_4d(seed, x1, y1, z1, t0, RSub[dx, One], RSub[dy, One], RSub[dz, One], dt)
        xi110 == interpolate(v0110, v1110, dx)
        yi10 == interpolate(xi010, xi110, dy)
        zi0 == interpolate(yi00, yi10, dz)
        v0001 == dot_grid_gradient_4d(seed, x0, y0, z0, t1, dx, dy, dz, RSub[dt, One])
        v1001 == dot_grid_gradient_4d(seed, x1, y0, z0, t1, RSub[dx, One], dy, dz, RSub[dt, One])
        xi001 == interpolate(v0001, v1001, dx)
        v0101 == dot_grid_gradient_4d(seed, x0, y1, z0, t1, dx, RSub[dy, One], dz, RSub[dt, One])
        v1101 == dot_grid_gradient_4d(seed, x1, y1, z0, t1, RSub[dx, One], RSub[dy, One], dz, RSub[dt, One])
        xi101 == interpolate(v0101, v1101, dx)
        yi01 == interpolate(xi001, xi101, dy)
        v0011 == dot_grid_gradient_4d(seed, x0, y0, z1, t1, dx, dy, RSub[dz, One], RSub[dt, One])
        v1011 == dot_grid_gradient_4d(seed, x1, y0, z1, t1, RSub[dx, One], dy, RSub[dz, One], RSub[dt, One])
        xi011 == interpolate(v0011, v1011, dx)
        v0111 == dot_grid_gradient_4d(seed, x0, y1, z1, t1, dx, RSub[dy, One], RSub[dz, One], RSub[dt, One])
        v1111 == dot_grid_gradient_4d(seed, x1, y1, z1, t1, RSub[dx, One], RSub[dy, One], RSub[dz, One], RSub[dt, One])
        xi111 == interpolate(v0111, v1111, dx)
        yi11 == interpolate(xi011, xi111, dy)
        zi1 == interpolate(yi01, yi11, dz)
    IN  interpolate(zi0, zi1, dt)

\* noise_4d_gradient: its locals are read several times each, so the body is cut at
\* the interpolation stages and the locals of a stage are handed to the next;
\* the stages are listed last to first.
\* noise.h lines 541-546 of noise_4d_gradient
noise_4d_gradient_ti(dt, heaviside_t, zi0, d_zi0_dx, d_zi0_dy, d_zi0_dz, d_zi0_dt, zi1, d_zi1_dx, d_zi1_dy, d_zi1_dz, d_zi1_dt) ==
    LET gradient_x == interpolate_gradient(zi0, zi1, dt, d_zi0_dx, d_zi1_dx, Zero)
        gradient_y == interpolate_gradient(zi0, zi1, dt, d_zi0_dy, d_zi1_dy, Zero)
        gradient_z == interpolate_gradient(zi0, zi1, dt, d_zi0_dz, d_zi1_dz, Zero)
        gradient_t == interpolate_gradient(zi0, zi1, dt, d_zi0_dt, d_zi1_dt, heaviside_t)
    IN  <<gradient_x, gradient_y, gradient_z, gradient_t>>

\* noise.h lines 529-539 of noise_4d_gradient
noise_4d_gradient_zi(dz, dt, heaviside_z, heaviside_t, yi00, d_yi00_dx, d_yi00_dy, d_yi00_dz, d_yi00_dt, yi10, d_yi10_dx, d_yi10_dy, d_yi10_dz, d_yi10_dt, yi01, d_yi01_dx, d_yi01_dy, d_yi01_dz, d_yi01_dt, yi11, d_yi11_dx, d_yi11_dy, d_yi11_dz, d_yi11_dt) ==
    noise_4d_gradient_ti(
        dt, heaviside_t,
        \* zi0
        interpolate(yi00, yi10, dz),
        \* d_zi0_dx
        interpolate_gradient(yi00, yi10, dz, d_yi00_dx, d_yi10_dx, Zero),
        \* d_zi0_dy
        interpolate_gradient(yi00, yi10, dz, d_yi00_dy, d_yi10_dy, Zero),
        \* d_zi0_dz
        interpolate_gradient(yi00, yi10, dz, d_yi00_dz, d_yi10_dz, heaviside_z),
        \* d_zi0_dt
        interpolate_gradient(yi00, yi10, dz, d_yi00_dt, d_yi10_dt, Zero),
        \* zi1
        interpolate(yi01, yi11, dz),
        \* d_zi1_dx
        interpolate_gradient(yi01, yi11, dz, d_yi01_dx, d_yi11_dx, Zero),
        \* d_zi1_dy
        interpolate_gradient(yi01, yi11, dz, d_yi01_dy, d_yi11_dy, Zero),
        \* d_zi1_dz
        interpolate_gradient(yi01, yi11, dz, d_yi01_dz, d_yi11_dz, heaviside_z),
        \* d_zi1_dt
        interpolate_gradient(yi01, yi11, dz, d_yi01_dt, d_yi11_dt, Zero))

\* noise.h lines 505-527 of noise_4d_gradient
noise_4d_gradient_yi(dy, dz, dt, heaviside_y, heaviside_z, heaviside_t, xi000, d_xi000_dx, d_xi000_dy, d_xi000_dz, d_xi000_dt, xi100, d_xi100_dx, d_xi100_dy, d_xi100_dz, d_xi100_dt, xi010, d_xi010_dx, d_xi010_dy, d_xi010_dz, d_xi010_dt, xi110, d_xi110_dx, d_xi110_dy, d_xi110_dz, d_xi110_dt, xi001, d_xi001_dx, d_xi001_dy, d_xi001_dz, d_xi001_dt, xi101, d_xi101_dx, d_xi101_dy, d_xi101_dz, d_xi101_dt, xi011, d_xi011_dx, d_xi011_dy, d_xi011_dz, d_xi011_dt, xi111, d_xi111_dx, d_xi111_dy, d_xi111_dz, d_xi111_dt) ==
    noise_4d_gradient_zi(
        dz, dt, heaviside_z, heaviside_t,
        \* yi00
        interpolate(xi000, xi100, dy),
        \* d_yi00_dx
        interpolate_gradient(xi000, xi100, dy, d_xi000_dx, d_xi100_dx, Zero),
        \* d_yi00_dy
        interpolate_gradient(xi000, xi100, dy, d_xi000_dy, d_xi100_dy, heaviside_y),
        \* d_yi00_dz
        interpolate_gradient(xi000, xi100, dy, d_xi000_dz, d_xi100_dz, Zero),
        \* d_yi00_dt
        interpolate_gradient(xi000, xi100, dy, d_xi000_dt, d_xi100_dt, Zero),
        \* yi10
        interpolate(xi010, xi110, dy),
        \* d_yi10_dx
        interpolate_gradient(xi010, xi110, dy, d_xi010_dx, d_xi110_dx, Zero),
        \* d_yi10_dy
        interpolate_gradient(xi010, xi110, dy, d_xi010_dy, d_xi110_dy, heaviside_y),
        \* d_yi10_dz
        interpolate_gradient(xi010, xi110, dy, d_xi010_dz, d_xi110_dz, Zero),
        \* d_yi10_dt
        interpolate_gradient(xi010, xi110, dy, d_xi010_dt, d_xi110_dt, Zero),
        \* yi01
        interpolate(xi001, xi101, dy),
        \* d_yi01_dx
        interpolate_gradient(xi001, xi101, dy, d_xi001_dx, d_xi101_dx, Zero),
        \* d_yi01_dy
        interpolate_gradient(xi001, xi101, dy, d_xi001_dy, d_xi101_dy, heaviside_y),
        \* d_yi01_dz
        interpolate_gradient(xi001, xi101, dy, d_xi001_dz, d_xi101_dz, Zero),
        \* d_yi01_dt
        interpolate_gradient(xi001, xi101, dy, d_xi001_dt, d_xi101_dt, Zero),
        \* yi11
        interpolate(xi011, xi111, dy),
        \* d_yi11_dx
        interpolate_gradient(xi011, xi111, dy, d_xi011_dx, d_xi111_dx, Zero),
        \* d_yi11_dy
        interpolate_gradient(xi011, xi111, dy, d_xi011_dy, d_xi111_dy, heaviside_y),
        \* d_yi11_dz
        interpolate_gradient(xi011, xi111, dy, d_xi011_dz, d_xi111_dz, Zero),
        \* d_yi11_dt
        interpolate_gradient(xi011, xi111, dy, d_xi011_dt, d_xi111_dt, Zero))

\* noise.h lines 457-503 of noise_4d_gradient
noise_4d_gradient_xi(dx, dy, dz, dt, heaviside_x, heaviside_y, heaviside_z, heaviside_t, v0000, d_v0000_dx, d_v0000_dy, d_v0000_dz, d_v0000_dt, v1000, d_v1000_dx, d_v1000_dy, d_v1000_dz, d_v1000_dt, v0100, d_v0100_dx, d_v0100_dy, d_v0100_dz, d_v0100_dt, v1100, d_v1100_dx, d_v1100_dy, d_v1100_dz, d_v1100_dt, v0010, d_v0010_dx, d_v0010_dy, d_v0010_dz, d_v0010_dt, v1010, d_v1010_dx, d_v1010_dy, d_v1010_dz, d_v1010_dt, v0110, d_v0110_dx, d_v0110_dy, d_v0110_dz, d_v0110_dt, v1110, d_v1110_dx, d_v1110_dy, d_v1110_dz, d_v1110_dt, v0001, d_v0001_dx, d_v0001_dy, d_v0001_dz, d_v0001_dt, v1001, d_v1001_dx, d_v1001_dy, d_v1001_dz, d_v1001_dt, v0101, d_v0101_dx, d_v0101_dy, d_v0101_dz, d_v0101_dt, v1101, d_v1101_dx, d_v1101_dy, d_v1101_dz, d_v1101_dt, v0011, d_v0011_dx, d_v0011_dy, d_v0011_dz, d_v0011_dt, v1011, d_v1011_dx, d_v1011_dy, d_v1011_dz, d_v1011_dt, v0111, d_v0111_dx, d_v0111_dy, d_v0111_dz, d_v0111_dt, v1111, d_v1111_dx, d_v1111_dy, d_v1111_dz, d_v1111_dt) ==
    noise_4d_gradient_yi(
        dy, dz, dt, heaviside_y, heaviside_z, heaviside_t,
        \* xi000
        interpolate(v0000, v1000, dx),
        \* d_xi000_dx
        interpolate_gradient(v0000, v1000, dx, d_v0000_dx, d_v1000_dx, heaviside_x),
        \* d_xi000_dy
        interpolate_gradient(v0000, v1000, dx, d_v0000_dy, d_v1000_dy, Zero),
        \* d_xi000_dz
        interpolate_gradient(v0000, v1000, dx, d_v0000_dz, d_v1000_dz, Zero),
        \* d_xi000_dt
        interpolate_gradient(v0000, v1000, dx, d_v0000_dt, d_v1000_dt, Zero),
        \* xi100
        interpolate(v0100, v1100, dx),
        \* d_xi100_dx
        interpolate_gradient(v0100, v1100, dx, d_v0100_dx, d_v1100_dx, heaviside_x),
        \* d_xi100_dy
        interpolate_gradient(v0100, v1100, dx, d_v0100_dy, d_v1100_dy, Zero),
        \* d_xi100_dz
        interpolate_gradient(v0100, v1100, dx, d_v0100_dz, d_v1100_dz, Zero),
        \* d_xi100_dt
        interpolate_gradient(v0100, v1100, dx, d_v0100_dt, d_v1100_dt, Zero),
        \* xi010
        interpolate(v0010, v1010, dx),
        \* d_xi010_dx
        interpolate_gradient(v0010, v1010, dx, d_v0010_dx, d_v1010_dx, heaviside_x),
        \* d_xi010_dy
        interpolate_gradient(v0010, v1010, dx, d_v0010_dy, d_v1010_dy, Zero),
        \* d_xi010_dz
        interpolate_gradient(v0010, v1010, dx, d_v0010_dz, d_v1010_dz, Zero),
        \* d_xi010_dt
        interpolate_gradient(v0010, v1010, dx, d_v0010_dt, d_v1010_dt, Zero),
        \* xi110
        interpolate(v0110, v1110, dx),
        \* d_xi110_dx
        interpolate_gradient(v0110, v1110, dx, d_v0110_dx, d_v1110_dx, heaviside_x),
        \* d_xi110_dy
        interpolate_gradient(v0110, v1110, dx, d_v0110_dy, d_v1110_dy, Zero),
        \* d_xi110_dz
        interpolate_gradient(v0110, v1110, dx, d_v0110_dz, d_v1110_dz, Zero),
        \* d_xi110_dt
        interpolate_gradient(v0110, v1110, dx, d_v0110_dt, d_v1110_dt, Zero),
        \* xi001
        interpolate(v0001, v1001, dx),
        \* d_xi001_dx
        interpolate_gradient(v0001, v1001, dx, d_v0001_dx, d_v1001_dx, heaviside_x),
        \* d_xi001_dy
        interpolate_gradient(v0001, v1001, dx, d_v0001_dy, d_v1001_dy, Zero),
        \* d_xi001_dz
        interpolate_gradient(v0001, v1001, dx, d_v0001_dz, d_v1001_dz, Zero),
        \* d_xi001_dt
        interpolate_gradient(v0001, v1001, dx, d_v0001_dt, d_v1001_dt, Zero),
        \* xi101
        interpolate(v0101, v1101, dx),
        \* d_xi101_dx
        interpolate_gradient(v0101, v1101, dx, d_v0101_dx, d_v1101_dx, heaviside_x),
        \* d_xi101_dy
        interpolate_gradient(v0101, v1101, dx, d_v0101_dy, d_v1101_dy, Zero),
        \* d_xi101_dz
        interpolate_gradient(v0101, v1101, dx, d_v0101_dz, d_v1101_dz, Zero),
        \* d_xi101_dt
        interpolate_gradient(v0101, v1101, dx, d_v0101_dt, d_v1101_dt, Zero),
        \* xi011
        interpolate(v0011, v1011, dx),
        \* d_xi011_dx
        interpolate_gradient(v0011, v1011, dx, d_v0011_dx, d_v1011_dx, heaviside_x),
        \* d_xi011_dy
        interpolate_gradient(v0011, v1011, dx, d_v0011_dy, d_v1011_dy, Zero),
        \* d_xi011_dz
        interpolate_gradient(v0011, v1011, dx, d_v0011_dz, d_v1011_dz, Zero),
        \* d_xi011_dt
        interpolate_gradient(v0011, v1011, dx, d_v0011_dt, d_v1011_dt, Zero),
        \* xi111
        interpolate(v0111, v1111, dx),
        \* d_xi111_dx
        interpolate_gradient(v0111, v1111, dx, d_v0111_dx, d_v1111_dx, heaviside_x),
        \* d_xi111_dy
        interpolate_gradient(v0111, v1111, dx, d_v0111_dy, d_v1111_dy, Zero),
        \* d_xi111_dz
        interpolate_gradient(v0111, v1111, dx, d_v0111_dz, d_v1111_dz, Zero),
        \* d_xi111_dt
        interpolate_gradient(v0111, v1111, dx, d_v0111_dt, d_v1111_dt, Zero))

\* noise.h lines 359-547; lines 361-455: the corner values
noise_4d_gradient(seed, x0, y0, z0, t0, x1, y1, z1, t1, dx, dy, dz, dt, heaviside_x, heaviside_y, heaviside_z, heaviside_t) ==
    noise_4d_gradient_xi(
        dx, dy, dz, dt, heaviside_x, heaviside_y, heaviside_z, heaviside_t,
        \* v0000
        dot_grid_gradient_4d(seed, x0, y0, z0, t0, dx, dy, dz, dt),
        \* d_v0000_dx
        dot_grid_gradient_4d_gradient(seed, x0, y0, z0, t0, heaviside_x, Zero, Zero, Zero),
        \* d_v0000_dy
        dot_grid_gradient_4d_gradient(seed, x0, y0, z0, t0, Zero, heaviside_y, Zero, Zero),
        \* d_v0000_dz
        dot_grid_gradient_4d_gradient(seed, x0, y0, z0, t0, Zero, Zero, heaviside_z, Zero),
        \* d_v0000_dt
        dot_grid_gradient_4d_gradient(seed, x0, y0, z0, t0, Zero, Zero, Zero, heaviside_t),
        \* v1000
        dot_grid_gradient_4d(seed, x1, y0, z0, t0, RSub[dx, One], dy, dz, dt),
        \* d_v1000_dx
        dot_grid_gradient_4d_gradient(seed, x1, y0, z0, t0, heaviside_x, Zero, Zero, Zero),
        \* d_v1000_dy
        dot_grid_gradient_4d_gradient(seed, x1, y0, z0, t0, Zero, heaviside_y, Zero, Zero),
        \* d_v1000_dz
        dot_grid_gradient_4d_gradient(seed, x1, y0, z0, t0, Zero, Zero, heaviside_z, Zero),
        \* d_v1000_dt
        dot_grid_gradient_4d_gradient(seed, x1, y0, z0, t0, Zero, Zero, Zero, heaviside_t),
        \* v0100
        dot_grid_gradient_4d(seed, x0, y1, z0, t0, dx, RSub[dy, One], dz, dt),
        \* d_v0100_dx
        dot_grid_gradient_4d_gradient(seed, x0, y1, z0, t0, heaviside_x, Zero, Zero, Zero),
        \* d_v0100_dy
        dot_grid_gradient_4d_gradient(seed, x0, y1, z0, t0, Zero, heaviside_y, Zero, Zero),
        \* d_v0100_dz
        dot_grid_gradient_4d_gradient(seed, x0, y1, z0, t0, Zero, Zero, heaviside_z, Zero),
        \* d_v0100_dt
        dot_grid_gradient_4d_gradient(seed, x0, y1, z0, t0, Zero, Zero, Zero, heaviside_t),
        \* v1100
        dot_grid_gradient_4d(seed, x1, y1, z0, t0, RSub[dx, One], RSub[dy, One], dz, dt),
        \* d_v1100_dx
        dot_grid_gradient_4d_gradient(seed, x1, y1, z0, t0, heaviside_x, Zero, Zero, Zero),
        \* d_v1100_dy
        dot_grid_gradient_4d_gradient(seed, x1, y1, z0, t0, Zero, heaviside_y, Zero, Zero),
        \* d_v1100_dz
        dot_grid_gradient_4d_gradient(seed, x1, y1, z0, t0, Zero, Zero, heaviside_z, Zero),
        \* d_v1100_dt
        dot_grid_gradient_4d_gradient(seed, x1, y1, z0, t0, Zero, Zero, Zero, heaviside_t),
        \* v0010
        dot_grid_gradient_4d(seed, x0, y0, z1, t0, dx, dy, RSub[dz, One], dt),
        \* d_v0010_dx
        dot_grid_gradient_4d_gradient(seed, x0, y0, z1, t0, heaviside_x, Zero, Zero, Zero),
        \* d_v0010_dy
        dot_grid_gradient_4d_gradient(seed, x0, y0, z1, t0, Zero, heaviside_y, Zero, Zero),
        \* d_v0010_dz
        dot_grid_gradient_4d_gradient(seed, x0, y0, z1, t0, Zero, Zero, heaviside_z, Zero),
        \* d_v0010_dt
        dot_grid_gradient_4d_gradient(seed, x0, y0, z1, t0, Zero, Zero, Zero, heaviside_t),
        \* v1010
        dot_grid_gradient_4d(seed, x1, y0, z1, t0, RSub[dx, One], dy, RSub[dz, One], dt),
        \* d_v1010_dx
        dot_grid_gradient_4d_gradient(seed, x1, y0, z1, t0, heaviside_x, Zero, Zero, Zero),
        \* d_v1010_dy
        dot_grid_gradient_4d_gradient(seed, x1, y0, z1, t0, Zero, heaviside_y, Zero, Zero),
        \* d_v1010_dz
        dot_grid_gradient_4d_gradient(seed, x1, y0, z1, t0, Zero, Zero, heaviside_z, Zero),
        \* d_v1010_dt
        dot_grid_gradient_4d_gradient(seed, x1, y0, z1, t0, Zero, Zero, Zero, heaviside_t),
        \* v0110
        dot_grid_gradient_4d(seed, x0, y1, z1, t0, dx, RSub[dy, One], RSub[dz, One], dt),
        \* d_v0110_dx
        dot_grid_gradient_4d_gradient(seed, x0, y1, z1, t0, heaviside_x, Zero, Zero, Zero),
        \* d_v0110_dy
        dot_grid_gradient_4d_gradient(seed, x0, y1, z1, t0, Zero, heaviside_y, Zero, Zero),
        \* d_v0110_dz
        dot_grid_gradient_4d_gradient(seed, x0, y1, z1, t0, Zero, Zero, heaviside_z, Zero),
        \* d_v0110_dt
        dot_grid_gradient_4d_gradient(seed, x0, y1, z1, t0, Zero, Zero, Zero, heaviside_t),
        \* v1110
        dot_grid_gradient_4d(seed, x1, y1, z1, t0, RSub[dx, One], RSub[dy, One], RSub[dz, One], dt),
        \* d_v1110_dx
        dot_grid_gradient_4d_gradient(seed, x1, y1, z1, t0, heaviside_x, Zero, Zero, Zero),
        \* d_v1110_dy
        dot_grid_gradient_4d_gradient(seed, x1, y1, z1, t0, Zero, heaviside_y, Zero, Zero),
        \* d_v1110_dz
        dot_grid_gradient_4d_gradient(seed, x1, y1, z1, t0, Zero, Zero, heaviside_z, Zero),
        \* d_v1110_dt
        dot_grid_gradient_4d_gradient(seed, x1, y1, z1, t0, Zero, Zero, Zero, heaviside_t),
        \* v0001
        dot_grid_gradient_4d(seed, x0, y0, z0, t1, dx, dy, dz, RSub[dt, One]),
        \* d_v0001_dx
        dot_grid_gradient_4d_gradient(seed, x0, y0, z0, t1, heaviside_x, Zero, Zero, Zero),
        \* d_v0001_dy
        dot_grid_gradient_4d_gradient(seed, x0, y0, z0, t1, Zero, heaviside_y, Zero, Zero),
        \* d_v0001_dz
        dot_grid_gradient_4d_gradient(seed, x0, y0, z0, t1, Zero, Zero, heaviside_z, Zero),
        \* d_v0001_dt
        dot_grid_gradient_4d_gradient(seed, x0, y0, z0, t1, Zero, Zero, Zero, heaviside_t),
        \* v1001
        dot_grid_gradient_4d(seed, x1, y0, z0, t1, RSub[dx, One], dy, dz, RSub[dt, One]),
        \* d_v1001_dx
        dot_grid_gradient_4d_gradient(seed, x1, y0, z0, t1, heaviside_x, Zero, Zero, Zero),
        \* d_v1001_dy
        dot_grid_gradient_4d_gradient(seed, x1, y0, z0, t1, Zero, heaviside_y, Zero, Zero),
        \* d_v1001_dz
        dot_grid_gradient_4d_gradient(seed, x1, y0, z0, t1, Zero, Zero, heaviside_z, Zero),
        \* d_v1001_dt
        dot_grid_gradient_4d_gradient(seed, x1, y0, z0, t1, Zero, Zero, Zero, heaviside_t),
        \* v0101
        dot_grid_gradient_4d(seed, x0, y1, z0, t1, dx, RSub[dy, One], dz, RSub[dt, One]),
        \* d_v0101_dx
        dot_grid_gradient_4d_gradient(seed, x0, y1, z0, t1, heaviside_x, Zero, Zero, Zero),
        \* d_v0101_dy
        dot_grid_gradient_4d_gradient(seed, x0, y1, z0, t1, Zero, heaviside_y, Zero, Zero),
        \* d_v0101_dz
        dot_grid_gradient_4d_gradient(seed, x0, y1, z0, t1, Zero, Zero, heaviside_z, Zero),
        \* d_v0101_dt
        dot_grid_gradient_4d_gradient(seed, x0, y1, z0, t1, Zero, Zero, Zero, heaviside_t),
        \* v1101
        dot_grid_gradient_4d(seed, x1, y1, z0, t1, RSub[dx, One], RSub[dy, One], dz, RSub[dt, One]),
        \* d_v1101_dx
        dot_grid_gradient_4d_gradient(seed, x1, y1, z0, t1, heaviside_x, Zero, Zero, Zero),
        \* d_v1101_dy
        dot_grid_gradient_4d_gradient(seed, x1, y1, z0, t1, Zero, heaviside_y, Zero, Zero),
        \* d_v1101_dz
        dot_grid_gradient_4d_gradient(seed, x1, y1, z0, t1, Zero, Zero, heaviside_z, Zero),
        \* d_v1101_dt
        dot_grid_gradient_4d_gradient(seed, x1, y1, z0, t1, Zero, Zero, Zero, heaviside_t),
        \* v0011
        dot_grid_gradient_4d(seed, x0, y0, z1, t1, dx, dy, RSub[dz, One], RSub[dt, One]),
        \* d_v0011_dx
        dot_grid_gradient_4d_gradient(seed, x0, y0, z1, t1, heaviside_x, Zero, Zero, Zero),
        \* d_v0011_dy
        dot_grid_gradient_4d_gradient(seed, x0, y0, z1, t1, Zero, heaviside_y, Zero, Zero),
        \* d_v0011_dz
        dot_grid_gradient_4d_gradient(seed, x0, y0, z1, t1, Zero, Zero, heaviside_z, Zero),
        \* d_v0011_dt
        dot_grid_gradient_4d_gradient(seed, x0, y0, z1, t1, Zero, Zero, Zero, heaviside_t),
        \* v1011
        dot_grid_gradient_4d(seed, x1, y0, z1, t1, RSub[dx, One], dy, RSub[dz, One], RSub[dt, One]),
        \* d_v1011_dx
        dot_grid_gradient_4d_gradient(seed, x1, y0, z1, t1, heaviside_x, Zero, Zero, Zero),
        \* d_v1011_dy
        dot_grid_gradient_4d_gradient(seed, x1, y0, z1, t1, Zero, heaviside_y, Zero, Zero),
        \* d_v1011_dz
        dot_grid_gradient_4d_gradient(seed, x1, y0, z1, t1, Zero, Zero, heaviside_z, Zero),
        \* d_v1011_dt
        dot_grid_gradient_4d_gradient(seed, x1, y0, z1, t1, Zero, Zero, Zero, heaviside_t),
        \* v0111
        dot_grid_gradient_4d(seed, x0, y1, z1, t1, dx, RSub[dy, One], RSub[dz, One], RSub[dt, One]),
        \* d_v0111_dx
        dot_grid_gradient_4d_gradient(seed, x0, y1, z1, t1, heaviside_x, Zero, Zero, Zero),
        \* d_v0111_dy
        dot_grid_gradient_4d_gradient(seed, x0, y1, z1, t1, Zero, heaviside_y, Zero, Zero),
        \* d_v0111_dz
        dot_grid_gradient_4d_gradient(seed, x0, y1, z1, t1, Zero, Zero, heaviside_z, Zero),
        \* d_v0111_dt
        dot_grid_gradient_4d_gradient(seed, x0, y1, z1, t1, Zero, Zero, Zero, heaviside_t),
        \* v1111
        dot_grid_gradient_4d(seed, x1, y1, z1, t1, RSub[dx, One], RSub[dy, One], RSub[dz, One], RSub[dt, One]),
        \* d_v1111_dx
        dot_grid_gradient_4d_gradient(seed, x1, y1, z1, t1, heaviside_x, Zero, Zero, Zero),
        \* d_v1111_dy
        dot_grid_gradient_4d_gradient(seed, x1, y1, z1, t1, Zero, heaviside_y, Zero, Zero),
        \* d_v1111_dz
        dot_grid_gradient_4d_gradient(seed, x1, y1, z1, t1, Zero, Zero, heaviside_z, Zero),
        \* d_v1111_dt
        dot_grid_gradient_4d_gradient(seed, x1, y1, z1, t1, Zero, Zero, Zero, heaviside_t))

(***************************************************************************)
(* The evaluators once more, with their locals kept: for each of noise_D   *)
(* and noise_D_gradient the statements of its body in the order of the     *)
(* source, and with them                                                   *)
(*   corners: the corner products (dot_grid_gradient_Dd calls), each with  *)
(*            the local it defines, its corner index and its offset;       *)
(*   values:  the locals of the value path (corner products and blends);   *)
(*   blends:  the interpolate calls of noise_D, or the                     *)
(*            interpolate_gradient calls of noise_D_gradient, each with    *)
(*            the value local it belongs to (d_xi0_dy belongs to xi0, the  *)
(*            returned value or gradient component to ret), the names and  *)
(*            the values of its two endpoints and of its blend parameter;  *)
(*   ret:     what the function returns.                                   *)
(***************************************************************************)
\* noise.h lines 138-145: the locals of noise_1d
noise_1d_locals(seed, x0, x1, dx) ==
    LET v0 == dot_grid_gradient_1d(seed, x0, dx)
        v1 == dot_grid_gradient_1d(seed, x1, RSub[dx, One])
    IN  [corners |-> <<[name |-> "v0", index |-> <<x0>>, offset |-> <<dx>>],
                     [name |-> "v1", index |-> <<x1>>, offset |-> <<RSub[dx, One]>>]>>,
         values |-> <<<<"v0", v0>>,
                     <<"v1", v1>>>>,
         blends |-> <<[name |-> "ret", ends |-> <<"v0", "v1">>, at |-> "dx", a0 |-> v0, a1 |-> v1, t |-> dx]>>,
         ret |-> interpolate(v0, v1, dx)]

\* noise.h lines 147-156: the locals of noise_1d_gradient
noise_1d_gradient_locals(seed, x0, x1, dx, heaviside_x) ==
    LET v0 == dot_grid_gradient_1d(seed, x0, dx)
        d_v0_dx == dot_grid_gradient_1d_gradient(seed, x0, heaviside_x)
        v1 == dot_grid_gradient_1d(seed, x1, RSub[dx, One])
        d_v1_dx == dot_grid_gradient_1d_gradient(seed, x1, heaviside_x)
    IN  [corners |-> <<[name |-> "v0", index |-> <<x0>>, offset |-> <<dx>>],
                     [name |-> "v1", index |-> <<x1>>, offset |-> <<RSub[dx, One]>>]>>,
         values |-> <<<<"v0", v0>>,
                     <<"v1", v1>>>>,
         blends |-> <<[name |-> "ret", ends |-> <<"v0", "v1">>, at |-> "dx", a0 |-> v0, a1 |-> v1, t |-> dx]>>,
         ret |-> interpolate_gradient(v0, v1, dx, d_v0_dx, d_v1_dx, heaviside_x)]

\* noise.h lines 158-170: the locals of noise_2d
noise_2d_locals(seed, x0, y0, x1, y1, dx, dy) ==
    LET v00 == dot_grid_gradient_2d(seed, x0, y0, dx, dy)
        v10 == dot_grid_gradient_2d(seed, x1, y0, RSub[dx, One], dy)
        xi0 == interpolate(v00, v10, dx)
        v01 == dot_grid_gradient_2d(seed, x0, y1, dx, RSub[dy, One])
        v11 == dot_grid_gradient_2d(seed, x1, y1, RSub[dx, One], RSub[dy, One])
        xi1 == interpolate(v01, v11, dx)
    IN  [corners |-> <<[name |-> "v00", index |-> <<x0, y0>>, offset |-> <<dx, dy>>],
                     [name |-> "v10", index |-> <<x1, y0>>, offset |-> <<RSub[dx, One], dy>>],
                     [name |-> "v01", index |-> <<x0, y1>>, offset |-> <<dx, RSub[dy, One]>>],
                     [name |-> "v11", index |-> <<x1, y1>>, offset |-> <<RSub[dx, One], RSub[dy, One]>>]>>,
         values |-> <<<<"v00", v00>>,
                     <<"v10", v10>>,
                     <<"xi0", xi0>>,
                     <<"v01", v01>>,
                     <<"v11", v11>>,
                     <<"xi1", xi1>>>>,
         blends |-> <<[name |-> "xi0", ends |-> <<"v00", "v10">>, at |-> "dx", a0 |-> v00, a1 |-> v10, t |-> dx],
                     [name |-> "xi1", ends |-> <<"v01", "v11">>, at |-> "dx", a0 |-> v01, a1 |-> v11, t |-> dx],
                     [name |-> "ret", ends |-> <<"xi0", "xi1">>, at |-> "dy", a0 |-> xi0, a1 |-> xi1, t |-> dy]>>,
         ret |-> interpolate(xi0, xi1, dy)]

\* noise.h lines 172-202: the locals of noise_2d_gradient
noise_2d_gradient_locals(seed, x0, y0, x1, y1, dx, dy, heaviside_x, heaviside_y) ==
    LET v00 == dot_grid_gradient_2d(seed, x0, y0, dx, dy)
        d_v00_dx == dot_grid_gradient_2d_gradient(seed, x0, y0, heaviside_x, Zero)
        d_v00_dy == dot_grid_gradient_2d_gradient(seed, x0, y0, Zero, heaviside_y)
        v10 == dot_grid_gradient_2d(seed, x1, y0, RSub[dx, One], dy)
        d_v10_dx == dot_grid_gradient_2d_gradient(seed, x1, y0, heaviside_x, Zero)
        d_v10_dy == dot_grid_gradient_2d_gradient(seed, x1, y0, Zero, heaviside_y)
        v01 == dot_grid_gradient_2d(seed, x0, y1, dx, RSub[dy, One])
        d_v01_dx == dot_grid_gradient_2d_gradient(seed, x0, y1, heaviside_x, Zero)
        d_v01_dy == dot_grid_gradient_2d_gradient(seed, x0, y1, Zero, heaviside_y)
        v11 == dot_grid_gradient_2d(seed, x1, y1, RSub[dx, One], RSub[dy, One])
        d_v11_dx == dot_grid_gradient_2d_gradient(seed, x1, y1, heaviside_x, Zero)
        d_v11_dy == dot_grid_gradient_2d_gradient(seed, x1, y1, Zero, heaviside_y)
        xi0 == interpolate(v00, v10, dx)
        d_xi0_dx == interpolate_gradient(v00, v10, dx, d_v00_dx, d_v10_dx, heaviside_x)
        d_xi0_dy == interpolate_gradient(v00, v10, dx, d_v00_dy, d_v10_dy, Zero)
        xi1 == interpolate(v01, v11, dx)
        d_xi1_dx == interpolate_gradient(v01, v11, dx, d_v01_dx, d_v11_dx, heaviside_x)
        d_xi1_dy == interpolate_gradient(v01, v11, dx, d_v01_dy, d_v11_dy, Zero)
        gradient_x == interpolate_gradient(xi0, xi1, dy, d_xi0_dx, d_xi1_dx, Zero)
        gradient_y == interpolate_gradient(xi0, xi1, dy, d_xi0_dy, d_xi1_dy, heaviside_y)
    IN  [corners |-> <<[name |-> "v00", index |-> <<x0, y0>>, offset |-> <<dx, dy>>],
                     [name |-> "v10", index |-> <<x1, y0>>, offset |-> <<RSub[dx, One], dy>>],
                     [name |-> "v01", index |-> <<x0, y1>>, offset |-> <<dx, RSub[dy, One]>>],
                     [name |-> "v11", index |-> <<x1, y1>>, offset |-> <<RSub[dx, One], RSub[dy, One]>>]>>,
         values |-> <<<<"v00", v00>>,
                     <<"v10", v10>>,
                     <<"v01", v01>>,
                     <<"v11", v11>>,
                     <<"xi0", xi0>>,
                     <<"xi1", xi1>>>>,
         blends |-> <<[name |-> "xi0", ends |-> <<"v00", "v10">>, at |-> "dx", a0 |-> v00, a1 |-> v10, t |-> dx],
                     [name |-> "xi0", ends |-> <<"v00", "v10">>, at |-> "dx", a0 |-> v00, a1 |-> v10, t |-> dx],
                     [name |-> "xi1", ends |-> <<"v01", "v11">>, at |-> "dx", a0 |-> v01, a1 |-> v11, t |-> dx],
                     [name |-> "xi1", ends |-> <<"v01", "v11">>, at |-> "dx", a0 |-> v01, a1 |-> v11, t |-> dx],
                     [name |-> "ret", ends |-> <<"xi0", "xi1">>, at |-> "dy", a0 |-> xi0, a1 |-> xi1, t |-> dy],
                     [name |-> "ret", ends |-> <<"xi0", "xi1">>, at |-> "dy", a0 |-> xi0, a1 |-> xi1, t |-> dy]>>,
         ret |-> <<gradient_x, gradient_y>>]

\* noise.h lines 204-228: the locals of noise_3d
noise_3d_locals(seed, x0, y0, z0, x1, y1, z1, dx, dy, dz) ==
    LET v000 == dot_grid_gradient_3d(seed, x0, y0, z0, dx, dy, dz)
        v100 == dot_grid_gradient_3d(seed, x1, y0, z0, RSub[dx, One], dy, dz)
        xi00 == interpolate(v000, v100, dx)
        v010 == dot_grid_gradient_3d(seed, x0, y1, z0, dx, RSub[dy, One], dz)
        v110 == dot_grid_gradient_3d(seed, x1, y1, z0, RSub[dx, One], RSub[dy, One], dz)
        xi10 == interpolate(v010, v110, dx)
        yi0 == interpolate(xi00, xi10, dy)
        v001 == dot_grid_gradient_3d(seed, x0, y0, z1, dx, dy, RSub[dz, One])
        v101 == dot_grid_gradient_3d(seed, x1, y0, z1, RSub[dx, One], dy, RSub[dz, One])
        xi01 == interpolate(v001, v101, dx)
        v011 == dot_grid_gradient_3d(seed, x0, y1, z1, dx, RSub[dy, One], RSub[dz, One])
        v111 == dot_grid_gradient_3d(seed, x1, y1, z1, RSub[dx, One], RSub[dy, One], RSub[dz, One])
        xi11 == interpolate(v011, v111, dx)
        yi1 == interpolate(xi01, xi11, dy)
    IN  [corners |-> <<[name |-> "v000", index |-> <<x0, y0, z0>>, offset |-> <<dx, dy, dz>>],
                     [name |-> "v100", index |-> <<x1, y0, z0>>, offset |-> <<RSub[dx, One], dy, dz>>],
                     [name |-> "v010", index |-> <<x0, y1, z0>>, offset |-> <<dx, RSub[dy, One], dz>>],
                     [name |-> "v110", index |-> <<x1, y1, z0>>, offset |-> <<RSub[dx, One], RSub[dy, One], dz>>],
                     [name |-> "v001", index |-> <<x0, y0, z1>>, offset |-> <<dx, dy, RSub[dz, One]>>],
                     [name |-> "v101", index |-> <<x1, y0, z1>>, offset |-> <<RSub[dx, One], dy, RSub[dz, One]>>],
                     [name |-> "v011", index |-> <<x0, y1, z1>>, offset |-> <<dx, RSub[dy, One], RSub[dz, One]>>],
                     [name |-> "v111", index |-> <<x1, y1, z1>>, offset |-> <<RSub[dx, One], RSub[dy, One], RSub[dz, One]>>]>>,
         values |-> <<<<"v000", v000>>,
                     <<"v100", v100>>,
                     <<"xi00", xi00>>,
                     <<"v010", v010>>,
                     <<"v110", v110>>,
                     <<"xi10", xi10>>,
                     <<"yi0", yi0>>,
                     <<"v001", v001>>,
                     <<"v101", v101>>,
                     <<"xi01", xi01>>,
                     <<"v011", v011>>,
                     <<"v111", v111>>,
                     <<"xi11", xi11>>,
                     <<"yi1", yi1>>>>,
         blends |-> <<[name |-> "xi00", ends |-> <<"v000", "v100">>, at |-> "dx", a0 |-> v000, a1 |-> v100, t |-> dx],
                     [name |-> "xi10", ends |-> <<"v010", "v110">>, at |-> "dx", a0 |-> v010, a1 |-> v110, t |-> dx],
                     [name |-> "yi0", ends |-> <<"xi00", "xi10">>, at |-> "dy", a0 |-> xi00, a1 |-> xi10, t |-> dy],
                     [name |-> "xi01", ends |-> <<"v001", "v101">>, at |-> "dx", a0 |-> v001, a1 |-> v101, t |-> dx],
                     [name |-> "xi11", ends |-> <<"v011", "v111">>, at |-> "dx", a0 |-> v011, a1 |-> v111, t |-> dx],
                     [name |-> "yi1", ends |-> <<"xi01", "xi11">>, at |-> "dy", a0 |-> xi01, a1 |-> xi11, t |-> dy],
                     [name |-> "ret", ends |-> <<"yi0", "yi1">>, at |-> "dz", a0 |-> yi0, a1 |-> yi1, t |-> dz]>>,
         ret |-> interpolate(yi0, yi1, dz)]

\* noise.h lines 230-307: the locals of noise_3d_gradient
noise_3d_gradient_locals(seed, x0, y0, z0, x1, y1, z1, dx, dy, dz, heaviside_x, heaviside_y, heaviside_z) ==
    LET v000 == dot_grid_gradient_3d(seed, x0, y0, z0, dx, dy, dz)
        d_v000_dx == dot_grid_gradient_3d_gradient(seed, x0, y0, z0, heaviside_x, Zero, Zero)
        d_v000_dy == dot_grid_gradient_3d_gradient(seed, x0, y0, z0, Zero, heaviside_y, Zero)
        d_v000_dz == dot_grid_gradient_3d_gradient(seed, x0, y0, z0, Zero, Zero, heaviside_z)
        v100 == dot_grid_gradient_3d(seed, x1, y0, z0, RSub[dx, One], dy, dz)
        d_v100_dx == dot_grid_gradient_3d_gradient(seed, x1, y0, z0, heaviside_x, Zero, Zero)
        d_v100_dy == dot_grid_gradient_3d_gradient(seed, x1, y0, z0, Zero, heaviside_y, Zero)
        d_v100_dz == dot_grid_gradient_3d_gradient(seed, x1, y0, z0, Zero, Zero, heaviside_z)
        v010 == dot_grid_gradient_3d(seed, x0, y1, z0, dx, RSub[dy, One], dz)
        d_v010_dx == dot_grid_gradient_3d_gradient(seed, x0, y1, z0, heaviside_x, Zero, Zero)
        d_v010_dy == dot_grid_gradient_3d_gradient(seed, x0, y1, z0, Zero, heaviside_y, Zero)
        d_v010_dz == dot_grid_gradient_3d_gradient(seed, x0, y1, z0, Zero, Zero, heaviside_z)
        v110 == dot_grid_gradient_3d(seed, x1, y1, z0, RSub[dx, One], RSub[dy, One], dz)
        d_v110_dx == dot_grid_gradient_3d_gradient(seed, x1, y1, z0, heaviside_x, Zero, Zero)
        d_v110_dy == dot_grid_gradient_3d_gradient(seed, x1, y1, z0, Zero, heaviside_y, Zero)
        d_v110_dz == dot_grid_gradient_3d_gradient(seed, x1, y1, z0, Zero, Zero, heaviside_z)
        v001 == dot_grid_gradient_3d(seed, x0, y0, z1, dx, dy, RSub[dz, One])
        d_v001_dx == dot_grid_gradient_3d_gradient(seed, x0, y0, z1, heaviside_x, Zero, Zero)
        d_v001_dy == dot_grid_gradient_3d_gradient(seed, x0, y0, z1, Zero, heaviside_y, Zero)
        d_v001_dz == dot_grid_gradient_3d_gradient(seed, x0, y0, z1, Zero, Zero, heaviside_z)
        v101 == dot_grid_gradient_3d(seed, x1, y0, z1, RSub[dx, One], dy, RSub[dz, One])
        d_v101_dx == dot_grid_gradient_3d_gradient(seed, x1, y0, z1, heaviside_x, Zero, Zero)
        d_v101_dy == dot_grid_gradient_3d_gradient(seed, x1, y0, z1, Zero, heaviside_y, Zero)
        d_v101_dz == dot_grid_gradient_3d_gradient(seed, x1, y0, z1, Zero, Zero, heaviside_z)
        v011 == dot_grid_gradient_3d(seed, x0, y1, z1, dx, RSub[dy, One], RSub[dz, One])
        d_v011_dx == dot_grid_gradient_3d_gradient(seed, x0, y1, z1, heaviside_x, Zero, Zero)
        d_v011_dy == dot_grid_gradient_3d_gradient(seed, x0, y1, z1, Zero, heaviside_y, Zero)
        d_v011_dz == dot_grid_gradient_3d_gradient(seed, x0, y1, z1, Zero, Zero, heaviside_z)
        v111 == dot_grid_gradient_3d(seed, x1, y1, z1, RSub[dx, One], RSub[dy, One], RSub[dz, One])
        d_v111_dx == dot_grid_gradient_3d_gradient(seed, x1, y1, z1, heaviside_x, Zero, Zero)
        d_v111_dy == dot_grid_gradient_3d_gradient(seed, x1, y1, z1, Zero, heaviside_y, Zero)
        d_v111_dz == dot_grid_gradient_3d_gradient(seed, x1, y1, z1, Zero, Zero, heaviside_z)
        xi00 == interpolate(v000, v100, dx)
        d_xi00_dx == interpolate_gradient(v000, v100, dx, d_v000_dx, d_v100_dx, heaviside_x)
        d_xi00_dy == interpolate_gradient(v000, v100, dx, d_v000_dy, d_v100_dy, Zero)
        d_xi00_dz == interpolate_gradient(v000, v100, dx, d_v000_dz, d_v100_dz, Zero)
        xi10 == interpolate(v010, v110, dx)
        d_xi10_dx == interpolate_gradient(v010, v110, dx, d_v010_dx, d_v110_dx, heaviside_x)
        d_xi10_dy == interpolate_gradient(v010, v110, dx, d_v010_dy, d_v110_dy, Zero)
        d_xi10_dz == interpolate_gradient(v010, v110, dx, d_v010_dz, d_v110_dz, Zero)
        xi01 == interpolate(v001, v101, dx)
        d_xi01_dx == interpolate_gradient(v001, v101, dx, d_v001_dx, d_v101_dx, heaviside_x)
        d_xi01_dy == interpolate_gradient(v001, v101, dx, d_v001_dy, d_v101_dy, Zero)
        d_xi01_dz == interpolate_gradient(v001, v101, dx, d_v001_dz, d_v101_dz, Zero)
        xi11 == interpolate(v011, v111, dx)
        d_xi11_dx == interpolate_gradient(v011, v111, dx, d_v011_dx, d_v111_dx, heaviside_x)
        d_xi11_dy == interpolate_gradient(v011, v111, dx, d_v011_dy, d_v111_dy, Zero)
        d_xi11_dz == interpolate_gradient(v011, v111, dx, d_v011_dz, d_v111_dz, Zero)
        yi0 == interpolate(xi00, xi10, dy)
        d_yi0_dx == interpolate_gradient(xi00, xi10, dy, d_xi00_dx, d_xi10_dx, Zero)
        d_yi0_dy == interpolate_gradient(xi00, xi10, dy, d_xi00_dy, d_xi10_dy, heaviside_y)
        d_yi0_dz == interpolate_gradient(xi00, xi10, dy, d_xi00_dz, d_xi10_dz, Zero)
        yi1 == interpolate(xi01, xi11, dy)
        d_yi1_dx == interpolate_gradient(xi01, xi11, dy, d_xi01_dx, d_xi11_dx, Zero)
        d_yi1_dy == interpolate_gradient(xi01, xi11, dy, d_xi01_dy, d_xi11_dy, heaviside_y)
        d_yi1_dz == interpolate_gradient(xi01, xi11, dy, d_xi01_dz, d_xi11_dz, Zero)
        gradient_x == interpolate_gradient(yi0, yi1, dz, d_yi0_dy, d_yi1_dy, Zero)
        gradient_y == interpolate_gradient(yi0, yi1, dz, d_yi0_dx, d_yi1_dx, Zero)
        gradient_z == interpolate_gradient(yi0, yi1, dz, d_yi0_dz, d_yi1_dz, heaviside_z)
    IN  [corners |-> <<[name |-> "v000", index |-> <<x0, y0, z0>>, offset |-> <<dx, dy, dz>>],
                     [name |-> "v100", index |-> <<x1, y0, z0>>, offset |-> <<RSub[dx, One], dy, dz>>],
                     [name |-> "v010", index |-> <<x0, y1, z0>>, offset |-> <<dx, RSub[dy, One], dz>>],
                     [name |-> "v110", index |-> <<x1, y1, z0>>, offset |-> <<RSub[dx, One], RSub[dy, One], dz>>],
                     [name |-> "v001", index |-> <<x0, y0, z1>>, offset |-> <<dx, dy, RSub[dz, One]>>],
                     [name |-> "v101", index |-> <<x1, y0, z1>>, offset |-> <<RSub[dx, One], dy, RSub[dz, One]>>],
                     [name |-> "v011", index |-> <<x0, y1, z1>>, offset |-> <<dx, RSub[dy, One], RSub[dz, One]>>],
                     [name |-> "v111", index |-> <<x1, y1, z1>>, offset |-> <<RSub[dx, One], RSub[dy, One], RSub[dz, One]>>]>>,
         values |-> <<<<"v000", v000>>,
                     <<"v100", v100>>,
                     <<"v010", v010>>,
                     <<"v110", v110>>,
                     <<"v001", v001>>,
                     <<"v101", v101>>,
                     <<"v011", v011>>,
                     <<"v111", v111>>,
                     <<"xi00", xi00>>,
                     <<"xi10", xi10>>,
                     <<"xi01", xi01>>,
                     <<"xi11", xi11>>,
                     <<"yi0", yi0>>,
                     <<"yi1", yi1>>>>,
         blends |-> <<[name |-> "xi00", ends |-> <<"v000", "v100">>, at |-> "dx", a0 |-> v000, a1 |-> v100, t |-> dx],
                     [name |-> "xi00", ends |-> <<"v000", "v100">>, at |-> "dx", a0 |-> v000, a1 |-> v100, t |-> dx],
                     [name |-> "xi00", ends |-> <<"v000", "v100">>, at |-> "dx", a0 |-> v000, a1 |-> v100, t |-> dx],
                     [name |-> "xi10", ends |-> <<"v010", "v110">>, at |-> "dx", a0 |-> v010, a1 |-> v110, t |-> dx],
                     [name |-> "xi10", ends |-> <<"v010", "v110">>, at |-> "dx", a0 |-> v010, a1 |-> v110, t |-> dx],
                     [name |-> "xi10", ends |-> <<"v010", "v110">>, at |-> "dx", a0 |-> v010, a1 |-> v110, t |-> dx],
                     [name |-> "xi01", ends |-> <<"v001", "v101">>, at |-> "dx", a0 |-> v001, a1 |-> v101, t |-> dx],
                     [name |-> "xi01", ends |-> <<"v001", "v101">>, at |-> "dx", a0 |-> v001, a1 |-> v101, t |-> dx],
                     [name |-> "xi01", ends |-> <<"v001", "v101">>, at |-> "dx", a0 |-> v001, a1 |-> v101, t |-> dx],
                     [name |-> "xi11", ends |-> <<"v011", "v111">>, at |-> "dx", a0 |-> v011, a1 |-> v111, t |-> dx],
                     [name |-> "xi11", ends |-> <<"v011", "v111">>, at |-> "dx", a0 |-> v011, a1 |-> v111, t |-> dx],
                     [name |-> "xi11", ends |-> <<"v011", "v111">>, at |-> "dx", a0 |-> v011, a1 |-> v111, t |-> dx],
                     [name |-> "yi0", ends |-> <<"xi00", "xi10">>, at |-> "dy", a0 |-> xi00, a1 |-> xi10, t |-> dy],
                     [name |-> "yi0", ends |-> <<"xi00", "xi10">>, at |-> "dy", a0 |-> xi00, a1 |-> xi10, t |-> dy],
                     [name |-> "yi0", ends |-> <<"xi00", "xi10">>, at |-> "dy", a0 |-> xi00, a1 |-> xi10, t |-> dy],
                     [name |-> "yi1", ends |-> <<"xi01", "xi11">>, at |-> "dy", a0 |-> xi01, a1 |-> xi11, t |-> dy],
                     [name |-> "yi1", ends |-> <<"xi01", "xi11">>, at |-> "dy", a0 |-> xi01, a1 |-> xi11, t |-> dy],
                     [name |-> "yi1", ends |-> <<"xi01", "xi11">>, at |-> "dy", a0 |-> xi01, a1 |-> xi11, t |-> dy],
                     [name |-> "ret", ends |-> <<"yi0", "yi1">>, at |-> "dz", a0 |-> yi0, a1 |-> yi1, t |-> dz],
                     [name |-> "ret", ends |-> <<"yi0", "yi1">>, at |-> "dz", a0 |-> yi0, a1 |-> yi1, t |-> dz],
                     [name |-> "ret", ends |-> <<"yi0", "yi1">>, at |-> "dz", a0 |-> yi0, a1 |-> yi1, t |-> dz]>>,
         ret |-> <<gradient_x, gradient_y, gradient_z>>]

\* noise.h lines 309-357: the locals of noise_4d
noise_4d_locals(seed, x0, y0, z0, t0, x1, y1, z1, t1, dx, dy, dz, dt) ==
    LET v0000 == dot_grid_gradient_4d(seed, x0, y0, z0, t0, dx, dy, dz, dt)
        v1000 == dot_grid_gradient_4d(seed, x1, y0, z0, t0, RSub[dx, One], dy, dz, dt)
        xi000 == interpolate(v0000, v1000, dx)
        v0100 == dot_grid_gradient_4d(seed, x0, y1, z0, t0, dx, RSub[dy, One], dz, dt)
        v1100 == dot_grid_gradient_4d(seed, x1, y1, z0, t0, RSub[dx, One], RSub[dy, One], dz, dt)
        xi100 == interpolate(v0100, v1100, dx)
        yi00 == interpolate(xi000, xi100, dy)
        v0010 == dot_grid_gradient_4d(seed, x0, y0, z1, t0, dx, dy, RSub[dz, One], dt)
        v1010 == dot_grid_gradient_4d(seed, x1, y0, z1, t0, RSub[dx, One], dy, RSub[dz, One], dt)
        xi010 == interpolate(v0010, v1010, dx)
        v0110 == dot_grid_gradient_4d(seed, x0, y1, z1, t0, dx, RSub[dy, One], RSub[dz, One], dt)
        v1110 == dot_grid_gradient_4d(seed, x1, y1, z1, t0, RSub[dx, One], RSub[dy, One], RSub[dz, One], dt)
        xi110 == interpolate(v0110, v1110, dx)
        yi10 == interpolate(xi010, xi110, dy)
        zi0 == interpolate(yi00, yi10, dz)
        v0001 == dot_grid_gradient_4d(seed, x0, y0, z0, t1, dx, dy, dz, RSub[dt, One])
        v1001 == dot_grid_gradient_4d(seed, x1, y0, z0, t1, RSub[dx, One], dy, dz, RSub[dt, One])
        xi001 == interpolate(v0001, v1001, dx)
        v0101 == dot_grid_gradient_4d(seed, x0, y1, z0, t1, dx, RSub[dy, One], dz, RSub[dt, One])
        v1101 == dot_grid_gradient_4d(seed, x1, y1, z0, t1, RSub[dx, One], RSub[dy, One], dz, RSub[dt, One])
        xi101 == interpolate(v0101, v1101, dx)
        yi01 == interpolate(xi001, xi101, dy)
        v0011 == dot_grid_gradient_4d(seed, x0, y0, z1, t1, dx, dy, RSub[dz, One], RSub[dt, One])
        v1011 == dot_grid_gradient_4d(seed, x1, y0, z1, t1, RSub[dx, One], dy, RSub[dz, One], RSub[dt, One])
        xi011 == interpolate(v0011, v1011, dx)
        v0111 == dot_grid_gradient_4d(seed, x0, y1, z1, t1, dx, RSub[dy, One], RSub[dz, One], RSub[dt, One])
        v1111 == dot_grid_gradient_4d(seed, x1, y1, z1, t1, RSub[dx, One], RSub[dy, One], RSub[dz, One], RSub[dt, One])
        xi111 == interpolate(v0111, v1111, dx)
        yi11 == interpolate(xi011, xi111, dy)
        zi1 == interpolate(yi01, yi11, dz)
    IN  [corners |-> <<[name |-> "v0000", index |-> <<x0, y0, z0, t0>>, offset |-> <<dx, dy, dz, dt>>],
                     [name |-> "v1000", index |-> <<x1, y0, z0, t0>>, offset |-> <<RSub[dx, One], dy, dz, dt>>],
                     [name |-> "v0100", index |-> <<x0, y1, z0, t0>>, offset |-> <<dx, RSub[dy, One], dz, dt>>],
                     [name |-> "v1100", index |-> <<x1, y1, z0, t0>>, offset |-> <<RSub[dx, One], RSub[dy, One], dz, dt>>],
                     [name |-> "v0010", index |-> <<x0, y0, z1, t0>>, offset |-> <<dx, dy, RSub[dz, One], dt>>],
                     [name |-> "v1010", index |-> <<x1, y0, z1, t0>>, offset |-> <<RSub[dx, One], dy, RSub[dz, One], dt>>],
                     [name |-> "v0110", index |-> <<x0, y1, z1, t0>>, offset |-> <<dx, RSub[dy, One], RSub[dz, One], dt>>],
                     [name |-> "v1110", index |-> <<x1, y1, z1, t0>>, offset |-> <<RSub[dx, One], RSub[dy, One], RSub[dz, One], dt>>],
                     [name |-> "v0001", index |-> <<x0, y0, z0, t1>>, offset |-> <<dx, dy, dz, RSub[dt, One]>>],
                     [name |-> "v1001", index |-> <<x1, y0, z0, t1>>, offset |-> <<RSub[dx, One], dy, dz, RSub[dt, One]>>],
                     [name |-> "v0101", index |-> <<x0, y1, z0, t1>>, offset |-> <<dx, RSub[dy, One], dz, RSub[dt, One]>>],
                     [name |-> "v1101", index |-> <<x1, y1, z0, t1>>, offset |-> <<RSub[dx, One], RSub[dy, One], dz, RSub[dt, One]>>],
                     [name |-> "v0011", index |-> <<x0, y0, z1, t1>>, offset |-> <<dx, dy, RSub[dz, One], RSub[dt, One]>>],
                     [name |-> "v1011", index |-> <<x1, y0, z1, t1>>, offset |-> <<RSub[dx, One], dy, RSub[dz, One], RSub[dt, One]>>],
                     [name |-> "v0111", index |-> <<x0, y1, z1, t1>>, offset |-> <<dx, RSub[dy, One], RSub[dz, One], RSub[dt, One]>>],
                     [name |-> "v1111", index |-> <<x1, y1, z1, t1>>, offset |-> <<RSub[dx, One], RSub[dy, One], RSub[dz, One], RSub[dt, One]>>]>>,
         values |-> <<<<"v0000", v0000>>,
                     <<"v1000", v1000>>,
                     <<"xi000", xi000>>,
                     <<"v0100", v0100>>,
                     <<"v1100", v1100>>,
                     <<"xi100", xi100>>,
                     <<"yi00", yi00>>,
                     <<"v0010", v0010>>,
                     <<"v1010", v1010>>,
                     <<"xi010", xi010>>,
                     <<"v0110", v0110>>,
                     <<"v1110", v1110>>,
                     <<"xi110", xi110>>,
                     <<"yi10", yi10>>,
                     <<"zi0", zi0>>,
                     <<"v0001", v0001>>,
                     <<"v1001", v1001>>,
                     <<"xi001", xi001>>,
                     <<"v0101", v0101>>,
                     <<"v1101", v1101>>,
                     <<"xi101", xi101>>,
                     <<"yi01", yi01>>,
                     <<"v0011", v0011>>,
                     <<"v1011", v1011>>,
                     <<"xi011", xi011>>,
                     <<"v0111", v0111>>,
                     <<"v1111", v1111>>,
                     <<"xi111", xi111>>,
                     <<"yi11", yi11>>,
                     <<"zi1", zi1>>>>,
         blends |-> <<[name |-> "xi000", ends |-> <<"v0000", "v1000">>, at |-> "dx", a0 |-> v0000, a1 |-> v1000, t |-> dx],
                     [name |-> "xi100", ends |-> <<"v0100", "v1100">>, at |-> "dx", a0 |-> v0100, a1 |-> v1100, t |-> dx],
                     [name |-> "yi00", ends |-> <<"xi000", "xi100">>, at |-> "dy", a0 |-> xi000, a1 |-> xi100, t |-> dy],
                     [name |-> "xi010", ends |-> <<"v0010", "v1010">>, at |-> "dx", a0 |-> v0010, a1 |-> v1010, t |-> dx],
                     [name |-> "xi110", ends |-> <<"v0110", "v1110">>, at |-> "dx", a0 |-> v0110, a1 |-> v1110, t |-> dx],
                     [name |-> "yi10", ends |-> <<"xi010", "xi110">>, at |-> "dy", a0 |-> xi010, a1 |-> xi110, t |-> dy],
                     [name |-> "zi0", ends |-> <<"yi00", "yi10">>, at |-> "dz", a0 |-> yi00, a1 |-> yi10, t |-> dz],
                     [name |-> "xi001", ends |-> <<"v0001", "v1001">>, at |-> "dx", a0 |-> v0001, a1 |-> v1001, t |-> dx],
                     [name |-> "xi101", ends |-> <<"v0101", "v1101">>, at |-> "dx", a0 |-> v0101, a1 |-> v1101, t |-> dx],
                     [name |-> "yi01", ends |-> <<"xi001", "xi101">>, at |-> "dy", a0 |-> xi001, a1 |-> xi101, t |-> dy],
                     [name |-> "xi011", ends |-> <<"v0011", "v1011">>, at |-> "dx", a0 |-> v0011, a1 |-> v1011, t |-> dx],
                     [name |-> "xi111", ends |-> <<"v0111", "v1111">>, at |-> "dx", a0 |-> v0111, a1 |-> v1111, t |-> dx],
                     [name |-> "yi11", ends |-> <<"xi011", "xi111">>, at |-> "dy", a0 |-> xi011, a1 |-> xi111, t |-> dy],
                     [name |-> "zi1", ends |-> <<"yi01", "yi11">>, at |-> "dz", a0 |-> yi01, a1 |-> yi11, t |-> dz],
                     [name |-> "ret", ends |-> <<"zi0", "zi1">>, at |-> "dt", a0 |-> zi0, a1 |-> zi1, t |-> dt]>>,
         ret |-> interpolate(zi0, zi1, dt)]

\* noise.h lines 359-547: the locals of noise_4d_gradient
noise_4d_gradient_locals(seed, x0, y0, z0, t0, x1, y1, z1, t1, dx, dy, dz, dt, heaviside_x, heaviside_y, heaviside_z, heaviside_t) ==
    LET v0000 == dot_grid_gradient_4d(seed, x0, y0, z0, t0, dx, dy, dz, dt)
        d_v0000_dx == dot_grid_gradient_4d_gradient(seed, x0, y0, z0, t0, heaviside_x, Zero, Zero, Zero)
        d_v0000_dy == dot_grid_gradient_4d_gradient(seed, x0, y0, z0, t0, Zero, heaviside_y, Zero, Zero)
        d_v0000_dz == dot_grid_gradient_4d_gradient(seed, x0, y0, z0, t0, Zero, Zero, heaviside_z, Zero)
        d_v0000_dt == dot_grid_gradient_4d_gradient(seed, x0, y0, z0, t0, Zero, Zero, Zero, heaviside_t)
        v1000 == dot_grid_gradient_4d(seed, x1, y0, z0, t0, RSub[dx, One], dy, dz, dt)
        d_v1000_dx == dot_grid_gradient_4d_gradient(seed, x1, y0, z0, t0, heaviside_x, Zero, Zero, Zero)
        d_v1000_dy == dot_grid_gradient_4d_gradient(seed, x1, y0, z0, t0, Zero, heaviside_y, Zero, Zero)
        d_v1000_dz == dot_grid_gradient_4d_gradient(seed, x1, y0, z0, t0, Zero, Zero, heaviside_z, Zero)
        d_v1000_dt == dot_grid_gradient_4d_gradient(seed, x1, y0, z0, t0, Zero, Zero, Zero, heaviside_t)
        v0100 == dot_grid_gradient_4d(seed, x0, y1, z0, t0, dx, RSub[dy, One], dz, dt)
        d_v0100_dx == dot_grid_gradient_4d_gradient(seed, x0, y1, z0, t0, heaviside_x, Zero, Zero, Zero)
        d_v0100_dy == dot_grid_gradient_4d_gradient(seed, x0, y1, z0, t0, Zero, heaviside_y, Zero, Zero)
        d_v0100_dz == dot_grid_gradient_4d_gradient(seed, x0, y1, z0, t0, Zero, Zero, heaviside_z, Zero)
        d_v0100_dt == dot_grid_gradient_4d_gradient(seed, x0, y1, z0, t0, Zero, Zero, Zero, heaviside_t)
        v1100 == dot_grid_gradient_4d(seed, x1, y1, z0, t0, RSub[dx, One], RSub[dy, One], dz, dt)
        d_v1100_dx == dot_grid_gradient_4d_gradient(seed, x1, y1, z0, t0, heaviside_x, Zero, Zero, Zero)
        d_v1100_dy == dot_grid_gradient_4d_gradient(seed, x1, y1, z0, t0, Zero, heaviside_y, Zero, Zero)
        d_v1100_dz == dot_grid_gradient_4d_gradient(seed, x1, y1, z0, t0, Zero, Zero, heaviside_z, Zero)
        d_v1100_dt == dot_grid_gradient_4d_gradient(seed, x1, y1, z0, t0, Zero, Zero, Zero, heaviside_t)
        v0010 == dot_grid_gradient_4d(seed, x0, y0, z1, t0, dx, dy, RSub[dz, One], dt)
        d_v0010_dx == dot_grid_gradient_4d_gradient(seed, x0, y0, z1, t0, heaviside_x, Zero, Zero, Zero)
        d_v0010_dy == dot_grid_gradient_4d_gradient(seed, x0, y0, z1, t0, Zero, heaviside_y, Zero, Zero)
        d_v0010_dz == dot_grid_gradient_4d_gradient(seed, x0, y0, z1, t0, Zero, Zero, heaviside_z, Zero)
        d_v0010_dt == dot_grid_gradient_4d_gradient(seed, x0, y0, z1, t0, Zero, Zero, Zero, heaviside_t)
        v1010 == dot_grid_gradient_4d(seed, x1, y0, z1, t0, RSub[dx, One], dy, RSub[dz, One], dt)
        d_v1010_dx == dot_grid_gradient_4d_gradient(seed, x1, y0, z1, t0, heaviside_x, Zero, Zero, Zero)
        d_v1010_dy == dot_grid_gradient_4d_gradient(seed, x1, y0, z1, t0, Zero, heaviside_y, Zero, Zero)
        d_v1010_dz == dot_grid_gradient_4d_gradient(seed, x1, y0, z1, t0, Zero, Zero, heaviside_z, Zero)
        d_v1010_dt == dot_grid_gradient_4d_gradient(seed, x1, y0, z1, t0, Zero, Zero, Zero, heaviside_t)
        v0110 == dot_grid_gradient_4d(seed, x0, y1, z1, t0, dx, RSub[dy, One], RSub[dz, One], dt)
        d_v0110_dx == dot_grid_gradient_4d_gradient(seed, x0, y1, z1, t0, heaviside_x, Zero, Zero, Zero)
        d_v0110_dy == dot_grid_gradient_4d_gradient(seed, x0, y1, z1, t0, Zero, heaviside_y, Zero, Zero)
        d_v0110_dz == dot_grid_gradient_4d_gradient(seed, x0, y1, z1, t0, Zero, Zero, heaviside_z, Zero)
        d_v0110_dt == dot_grid_gradient_4d_gradient(seed, x0, y1, z1, t0, Zero, Zero, Zero, heaviside_t)
        v1110 == dot_grid_gradient_4d(seed, x1, y1, z1, t0, RSub[dx, One], RSub[dy, One], RSub[dz, One], dt)
        d_v1110_dx == dot_grid_gradient_4d_gradient(seed, x1, y1, z1, t0, heaviside_x, Zero, Zero, Zero)
        d_v1110_dy == dot_grid_gradient_4d_gradient(seed, x1, y1, z1, t0, Zero, heaviside_y, Zero, Zero)
        d_v1110_dz == dot_grid_gradient_4d_gradient(seed, x1, y1, z1, t0, Zero, Zero, heaviside_z, Zero)
        d_v1110_dt == dot_grid_gradient_4d_gradient(seed, x1, y1, z1, t0, Zero, Zero, Zero, heaviside_t)
        v0001 == dot_grid_gradient_4d(seed, x0, y0, z0, t1, dx, dy, dz, RSub[dt, One])
        d_v0001_dx == dot_grid_gradient_4d_gradient(seed, x0, y0, z0, t1, heaviside_x, Zero, Zero, Zero)
        d_v0001_dy == dot_grid_gradient_4d_gradient(seed, x0, y0, z0, t1, Zero, heaviside_y, Zero, Zero)
        d_v0001_dz == dot_grid_gradient_4d_gradient(seed, x0, y0, z0, t1, Zero, Zero, heaviside_z, Zero)
        d_v0001_dt == dot_grid_gradient_4d_gradient(seed, x0, y0, z0, t1, Zero, Zero, Zero, heaviside_t)
        v1001 == dot_grid_gradient_4d(seed, x1, y0, z0, t1, RSub[dx, One], dy, dz, RSub[dt, One])
        d_v1001_dx == dot_grid_gradient_4d_gradient(seed, x1, y0, z0, t1, heaviside_x, Zero, Zero, Zero)
        d_v1001_dy == dot_grid_gradient_4d_gradient(seed, x1, y0, z0, t1, Zero, heaviside_y, Zero, Zero)
        d_v1001_dz == dot_grid_gradient_4d_gradient(seed, x1, y0, z0, t1, Zero, Zero, heaviside_z, Zero)
        d_v1001_dt == dot_grid_gradient_4d_gradient(seed, x1, y0, z0, t1, Zero, Zero, Zero, heaviside_t)
        v0101 == dot_grid_gradient_4d(seed, x0, y1, z0, t1, dx, RSub[dy, One], dz, RSub[dt, One])
        d_v0101_dx == dot_grid_gradient_4d_gradient(seed, x0, y1, z0, t1, heaviside_x, Zero, Zero, Zero)
        d_v0101_dy == dot_grid_gradient_4d_gradient(seed, x0, y1, z0, t1, Zero, heaviside_y, Zero, Zero)
        d_v0101_dz == dot_grid_gradient_4d_gradient(seed, x0, y1, z0, t1, Zero, Zero, heaviside_z, Zero)
        d_v0101_dt == dot_grid_gradient_4d_gradient(seed, x0, y1, z0, t1, Zero, Zero, Zero, heaviside_t)
        v1101 == dot_grid_gradient_4d(seed, x1, y1, z0, t1, RSub[dx, One], RSub[dy, One], dz, RSub[dt, One])
        d_v1101_dx == dot_grid_gradient_4d_gradient(seed, x1, y1, z0, t1, heaviside_x, Zero, Zero, Zero)
        d_v1101_dy == dot_grid_gradient_4d_gradient(seed, x1, y1, z0, t1, Zero, heaviside_y, Zero, Zero)
        d_v1101_dz == dot_grid_gradient_4d_gradient(seed, x1, y1, z0, t1, Zero, Zero, heaviside_z, Zero)
        d_v1101_dt == dot_grid_gradient_4d_gradient(seed, x1, y1, z0, t1, Zero, Zero, Zero, heaviside_t)
        v0011 == dot_grid_gradient_4d(seed, x0, y0, z1, t1, dx, dy, RSub[dz, One], RSub[dt, One])
        d_v0011_dx == dot_grid_gradient_4d_gradient(seed, x0, y0, z1, t1, heaviside_x, Zero, Zero, Zero)
        d_v0011_dy == dot_grid_gradient_4d_gradient(seed, x0, y0, z1, t1, Zero, heaviside_y, Zero, Zero)
        d_v0011_dz == dot_grid_gradient_4d_gradient(seed, x0, y0, z1, t1, Zero, Zero, heaviside_z, Zero)
        d_v0011_dt == dot_grid_gradient_4d_gradient(seed, x0, y0, z1, t1, Zero, Zero, Zero, heaviside_t)
        v1011 == dot_grid_gradient_4d(seed, x1, y0, z1, t1, RSub[dx, One], dy, RSub[dz, One], RSub[dt, One])
        d_v1011_dx == dot_grid_gradient_4d_gradient(seed, x1, y0, z1, t1, heaviside_x, Zero, Zero, Zero)
        d_v1011_dy == dot_grid_gradient_4d_gradient(seed, x1, y0, z1, t1, Zero, heaviside_y, Zero, Zero)
        d_v1011_dz == dot_grid_gradient_4d_gradient(seed, x1, y0, z1, t1, Zero, Zero, heaviside_z, Zero)
        d_v1011_dt == dot_grid_gradient_4d_gradient(seed, x1, y0, z1, t1, Zero, Zero, Zero, heaviside_t)
        v0111 == dot_grid_gradient_4d(seed, x0, y1, z1, t1, dx, RSub[dy, One], RSub[dz, One], RSub[dt, One])
        d_v0111_dx == dot_grid_gradient_4d_gradient(seed, x0, y1, z1, t1, heaviside_x, Zero, Zero, Zero)
        d_v0111_dy == dot_grid_gradient_4d_gradient(seed, x0, y1, z1, t1, Zero, heaviside_y, Zero, Zero)
        d_v0111_dz == dot_grid_gradient_4d_gradient(seed, x0, y1, z1, t1, Zero, Zero, heaviside_z, Zero)
        d_v0111_dt == dot_grid_gradient_4d_gradient(seed, x0, y1, z1, t1, Zero, Zero, Zero, heaviside_t)
        v1111 == dot_grid_gradient_4d(seed, x1, y1, z1, t1, RSub[dx, One], RSub[dy, One], RSub[dz, One], RSub[dt, One])
        d_v1111_dx == dot_grid_gradient_4d_gradient(seed, x1, y1, z1, t1, heaviside_x, Zero, Zero, Zero)
        d_v1111_dy == dot_grid_gradient_4d_gradient(seed, x1, y1, z1, t1, Zero, heaviside_y, Zero, Zero)
        d_v1111_dz == dot_grid_gradient_4d_gradient(seed, x1, y1, z1, t1, Zero, Zero, heaviside_z, Zero)
        d_v1111_dt == dot_grid_gradient_4d_gradient(seed, x1, y1, z1, t1, Zero, Zero, Zero, heaviside_t)
        xi000 == interpolate(v0000, v1000, dx)
        d_xi000_dx == interpolate_gradient(v0000, v1000, dx, d_v0000_dx, d_v1000_dx, heaviside_x)
        d_xi000_dy == interpolate_gradient(v0000, v1000, dx, d_v0000_dy, d_v1000_dy, Zero)
        d_xi000_dz == interpolate_gradient(v0000, v1000, dx, d_v0000_dz, d_v1000_dz, Zero)
        d_xi000_dt == interpolate_gradient(v0000, v1000, dx, d_v0000_dt, d_v1000_dt, Zero)
        xi100 == interpolate(v0100, v1100, dx)
        d_xi100_dx == interpolate_gradient(v0100, v1100, dx, d_v0100_dx, d_v1100_dx, heaviside_x)
        d_xi100_dy == interpolate_gradient(v0100, v1100, dx, d_v0100_dy, d_v1100_dy, Zero)
        d_xi100_dz == interpolate_gradient(v0100, v1100, dx, d_v0100_dz, d_v1100_dz, Zero)
        d_xi100_dt == interpolate_gradient(v0100, v1100, dx, d_v0100_dt, d_v1100_dt, Zero)
        xi010 == interpolate(v0010, v1010, dx)
        d_xi010_dx == interpolate_gradient(v0010, v1010, dx, d_v0010_dx, d_v1010_dx, heaviside_x)
        d_xi010_dy == interpolate_gradient(v0010, v1010, dx, d_v0010_dy, d_v1010_dy, Zero)
        d_xi010_dz == interpolate_gradient(v0010, v1010, dx, d_v0010_dz, d_v1010_dz, Zero)
        d_xi010_dt == interpolate_gradient(v0010, v1010, dx, d_v0010_dt, d_v1010_dt, Zero)
        xi110 == interpolate(v0110, v1110, dx)
        d_xi110_dx == interpolate_gradient(v0110, v1110, dx, d_v0110_dx, d_v1110_dx, heaviside_x)
        d_xi110_dy == interpolate_gradient(v0110, v1110, dx, d_v0110_dy, d_v1110_dy, Zero)
        d_xi110_dz == interpolate_gradient(v0110, v1110, dx, d_v0110_dz, d_v1110_dz, Zero)
        d_xi110_dt == interpolate_gradient(v0110, v1110, dx, d_v0110_dt, d_v1110_dt, Zero)
        xi001 == interpolate(v0001, v1001, dx)
        d_xi001_dx == interpolate_gradient(v0001, v1001, dx, d_v0001_dx, d_v1001_dx, heaviside_x)
        d_xi001_dy == interpolate_gradient(v0001, v1001, dx, d_v0001_dy, d_v1001_dy, Zero)
        d_xi001_dz == interpolate_gradient(v0001, v1001, dx, d_v0001_dz, d_v1001_dz, Zero)
        d_xi001_dt == interpolate_gradient(v0001, v1001, dx, d_v0001_dt, d_v1001_dt, Zero)
        xi101 == interpolate(v0101, v1101, dx)
        d_xi101_dx == interpolate_gradient(v0101, v1101, dx, d_v0101_dx, d_v1101_dx, heaviside_x)
        d_xi101_dy == interpolate_gradient(v0101, v1101, dx, d_v0101_dy, d_v1101_dy, Zero)
        d_xi101_dz == interpolate_gradient(v0101, v1101, dx, d_v0101_dz, d_v1101_dz, Zero)
        d_xi101_dt == interpolate_gradient(v0101, v1101, dx, d_v0101_dt, d_v1101_dt, Zero)
        xi011 == interpolate(v0011, v1011, dx)
        d_xi011_dx == interpolate_gradient(v0011, v1011, dx, d_v0011_dx, d_v1011_dx, heaviside_x)
        d_xi011_dy == interpolate_gradient(v0011, v1011, dx, d_v0011_dy, d_v1011_dy, Zero)
        d_xi011_dz == interpolate_gradient(v0011, v1011, dx, d_v0011_dz, d_v1011_dz, Zero)
        d_xi011_dt == interpolate_gradient(v0011, v1011, dx, d_v0011_dt, d_v1011_dt, Zero)
        xi111 == interpolate(v0111, v1111, dx)
        d_xi111_dx == interpolate_gradient(v0111, v1111, dx, d_v0111_dx, d_v1111_dx, heaviside_x)
        d_xi111_dy == interpolate_gradient(v0111, v1111, dx, d_v0111_dy, d_v1111_dy, Zero)
        d_xi111_dz == interpolate_gradient(v0111, v1111, dx, d_v0111_dz, d_v1111_dz, Zero)
        d_xi111_dt == interpolate_gradient(v0111, v1111, dx, d_v0111_dt, d_v1111_dt, Zero)
        yi00 == interpolate(xi000, xi100, dy)
        d_yi00_dx == interpolate_gradient(xi000, xi100, dy, d_xi000_dx, d_xi100_dx, Zero)
        d_yi00_dy == interpolate_gradient(xi000, xi100, dy, d_xi000_dy, d_xi100_dy, heaviside_y)
        d_yi00_dz == interpolate_gradient(xi000, xi100, dy, d_xi000_dz, d_xi100_dz, Zero)
        d_yi00_dt == interpolate_gradient(xi000, xi100, dy, d_xi000_dt, d_xi100_dt, Zero)
        yi10 == interpolate(xi010, xi110, dy)
        d_yi10_dx == interpolate_gradient(xi010, xi110, dy, d_xi010_dx, d_xi110_dx, Zero)
        d_yi10_dy == interpolate_gradient(xi010, xi110, dy, d_xi010_dy, d_xi110_dy, heaviside_y)
        d_yi10_dz == interpolate_gradient(xi010, xi110, dy, d_xi010_dz, d_xi110_dz, Zero)
        d_yi10_dt == interpolate_gradient(xi010, xi110, dy, d_xi010_dt, d_xi110_dt, Zero)
        yi01 == interpolate(xi001, xi101, dy)
        d_yi01_dx == interpolate_gradient(xi001, xi101, dy, d_xi001_dx, d_xi101_dx, Zero)
        d_yi01_dy == interpolate_gradient(xi001, xi101, dy, d_xi001_dy, d_xi101_dy, heaviside_y)
        d_yi01_dz == interpolate_gradient(xi001, xi101, dy, d_xi001_dz, d_xi101_dz, Zero)
        d_yi01_dt == interpolate_gradient(xi001, xi101, dy, d_xi001_dt, d_xi101_dt, Zero)
        yi11 == interpolate(xi011, xi111, dy)
        d_yi11_dx == interpolate_gradient(xi011, xi111, dy, d_xi011_dx, d_xi111_dx, Zero)
        d_yi11_dy == interpolate_gradient(xi011, xi111, dy, d_xi011_dy, d_xi111_dy, heaviside_y)
        d_yi11_dz == interpolate_gradient(xi011, xi111, dy, d_xi011_dz, d_xi111_dz, Zero)
        d_yi11_dt == interpolate_gradient(xi011, xi111, dy, d_xi011_dt, d_xi111_dt, Zero)
        zi0 == interpolate(yi00, yi10, dz)
        d_zi0_dx == interpolate_gradient(yi00, yi10, dz, d_yi00_dx, d_yi10_dx, Zero)
        d_zi0_dy == interpolate_gradient(yi00, yi10, dz, d_yi00_dy, d_yi10_dy, Zero)
        d_zi0_dz == interpolate_gradient(yi00, yi10, dz, d_yi00_dz, d_yi10_dz, heaviside_z)
        d_zi0_dt == interpolate_gradient(yi00, yi10, dz, d_yi00_dt, d_yi10_dt, Zero)
        zi1 == interpolate(yi01, yi11, dz)
        d_zi1_dx == interpolate_gradient(yi01, yi11, dz, d_yi01_dx, d_yi11_dx, Zero)
        d_zi1_dy == interpolate_gradient(yi01, yi11, dz, d_yi01_dy, d_yi11_dy, Zero)
        d_zi1_dz == interpolate_gradient(yi01, yi11, dz, d_yi01_dz, d_yi11_dz, heaviside_z)
        d_zi1_dt == interpolate_gradient(yi01, yi11, dz, d_yi01_dt, d_yi11_dt, Zero)
        gradient_x == interpolate_gradient(zi0, zi1, dt, d_zi0_dx, d_zi1_dx, Zero)
        gradient_y == interpolate_gradient(zi0, zi1, dt, d_zi0_dy, d_zi1_dy, Zero)
        gradient_z == interpolate_gradient(zi0, zi1, dt, d_zi0_dz, d_zi1_dz, Zero)
        gradient_t == interpolate_gradient(zi0, zi1, dt, d_zi0_dt, d_zi1_dt, heaviside_t)
    IN  [corners |-> <<[name |-> "v0000", index |-> <<x0, y0, z0, t0>>, offset |-> <<dx, dy, dz, dt>>],
                     [name |-> "v1000", index |-> <<x1, y0, z0, t0>>, offset |-> <<RSub[dx, One], dy, dz, dt>>],
                     [name |-> "v0100", index |-> <<x0, y1, z0, t0>>, offset |-> <<dx, RSub[dy, One], dz, dt>>],
                     [name |-> "v1100", index |-> <<x1, y1, z0, t0>>, offset |-> <<RSub[dx, One], RSub[dy, One], dz, dt>>],
                     [name |-> "v0010", index |-> <<x0, y0, z1, t0>>, offset |-> <<dx, dy, RSub[dz, One], dt>>],
                     [name |-> "v1010", index |-> <<x1, y0, z1, t0>>, offset |-> <<RSub[dx, One], dy, RSub[dz, One], dt>>],
                     [name |-> "v0110", index |-> <<x0, y1, z1, t0>>, offset |-> <<dx, RSub[dy, One], RSub[dz, One], dt>>],
                     [name |-> "v1110", index |-> <<x1, y1, z1, t0>>, offset |-> <<RSub[dx, One], RSub[dy, One], RSub[dz, One], dt>>],
                     [name |-> "v0001", index |-> <<x0, y0, z0, t1>>, offset |-> <<dx, dy, dz, RSub[dt, One]>>],
                     [name |-> "v1001", index |-> <<x1, y0, z0, t1>>, offset |-> <<RSub[dx, One], dy, dz, RSub[dt, One]>>],
                     [name |-> "v0101", index |-> <<x0, y1, z0, t1>>, offset |-> <<dx, RSub[dy, One], dz, RSub[dt, One]>>],
                     [name |-> "v1101", index |-> <<x1, y1, z0, t1>>, offset |-> <<RSub[dx, One], RSub[dy, One], dz, RSub[dt, One]>>],
                     [name |-> "v0011", index |-> <<x0, y0, z1, t1>>, offset |-> <<dx, dy, RSub[dz, One], RSub[dt, One]>>],
                     [name |-> "v1011", index |-> <<x1, y0, z1, t1>>, offset |-> <<RSub[dx, One], dy, RSub[dz, One], RSub[dt, One]>>],
                     [name |-> "v0111", index |-> <<x0, y1, z1, t1>>, offset |-> <<dx, RSub[dy, One], RSub[dz, One], RSub[dt, One]>>],
                     [name |-> "v1111", index |-> <<x1, y1, z1, t1>>, offset |-> <<RSub[dx, One], RSub[dy, One], RSub[dz, One], RSub[dt, One]>>]>>,
         values |-> <<<<"v0000", v0000>>,
                     <<"v1000", v1000>>,
                     <<"v0100", v0100>>,
                     <<"v1100", v1100>>,
                     <<"v0010", v0010>>,
                     <<"v1010", v1010>>,
                     <<"v0110", v0110>>,
                     <<"v1110", v1110>>,
                     <<"v0001", v0001>>,
                     <<"v1001", v1001>>,
                     <<"v0101", v0101>>,
                     <<"v1101", v1101>>,
                     <<"v0011", v0011>>,
                     <<"v1011", v1011>>,
                     <<"v0111", v0111>>,
                     <<"v1111", v1111>>,
                     <<"xi000", xi000>>,
                     <<"xi100", xi100>>,
                     <<"xi010", xi010>>,
                     <<"xi110", xi110>>,
                     <<"xi001", xi001>>,
                     <<"xi101", xi101>>,
                     <<"xi011", xi011>>,
                     <<"xi111", xi111>>,
                     <<"yi00", yi00>>,
                     <<"yi10", yi10>>,
                     <<"yi01", yi01>>,
                     <<"yi11", yi11>>,
                     <<"zi0", zi0>>,
                     <<"zi1", zi1>>>>,
         blends |-> <<[name |-> "xi000", ends |-> <<"v0000", "v1000">>, at |-> "dx", a0 |-> v0000, a1 |-> v1000, t |-> dx],
                     [name |-> "xi000", ends |-> <<"v0000", "v1000">>, at |-> "dx", a0 |-> v0000, a1 |-> v1000, t |-> dx],
                     [name |-> "xi000", ends |-> <<"v0000", "v1000">>, at |-> "dx", a0 |-> v0000, a1 |-> v1000, t |-> dx],
                     [name |-> "xi000", ends |-> <<"v0000", "v1000">>, at |-> "dx", a0 |-> v0000, a1 |-> v1000, t |-> dx],
                     [name |-> "xi100", ends |-> <<"v0100", "v1100">>, at |-> "dx", a0 |-> v0100, a1 |-> v1100, t |-> dx],
                     [name |-> "xi100", ends |-> <<"v0100", "v1100">>, at |-> "dx", a0 |-> v0100, a1 |-> v1100, t |-> dx],
                     [name |-> "xi100", ends |-> <<"v0100", "v1100">>, at |-> "dx", a0 |-> v0100, a1 |-> v1100, t |-> dx],
                     [name |-> "xi100", ends |-> <<"v0100", "v1100">>, at |-> "dx", a0 |-> v0100, a1 |-> v1100, t |-> dx],
                     [name |-> "xi010", ends |-> <<"v0010", "v1010">>, at |-> "dx", a0 |-> v0010, a1 |-> v1010, t |-> dx],
                     [name |-> "xi010", ends |-> <<"v0010", "v1010">>, at |-> "dx", a0 |-> v0010, a1 |-> v1010, t |-> dx],
                     [name |-> "xi010", ends |-> <<"v0010", "v1010">>, at |-> "dx", a0 |-> v0010, a1 |-> v1010, t |-> dx],
                     [name |-> "xi010", ends |-> <<"v0010", "v1010">>, at |-> "dx", a0 |-> v0010, a1 |-> v1010, t |-> dx],
                     [name |-> "xi110", ends |-> <<"v0110", "v1110">>, at |-> "dx", a0 |-> v0110, a1 |-> v1110, t |-> dx],
                     [name |-> "xi110", ends |-> <<"v0110", "v1110">>, at |-> "dx", a0 |-> v0110, a1 |-> v1110, t |-> dx],
                     [name |-> "xi110", ends |-> <<"v0110", "v1110">>, at |-> "dx", a0 |-> v0110, a1 |-> v1110, t |-> dx],
                     [name |-> "xi110", ends |-> <<"v0110", "v1110">>, at |-> "dx", a0 |-> v0110, a1 |-> v1110, t |-> dx],
                     [name |-> "xi001", ends |-> <<"v0001", "v1001">>, at |-> "dx", a0 |-> v0001, a1 |-> v1001, t |-> dx],
                     [name |-> "xi001", ends |-> <<"v0001", "v1001">>, at |-> "dx", a0 |-> v0001, a1 |-> v1001, t |-> dx],
                     [name |-> "xi001", ends |-> <<"v0001", "v1001">>, at |-> "dx", a0 |-> v0001, a1 |-> v1001, t |-> dx],
                     [name |-> "xi001", ends |-> <<"v0001", "v1001">>, at |-> "dx", a0 |-> v0001, a1 |-> v1001, t |-> dx],
                     [name |-> "xi101", ends |-> <<"v0101", "v1101">>, at |-> "dx", a0 |-> v0101, a1 |-> v1101, t |-> dx],
                     [name |-> "xi101", ends |-> <<"v0101", "v1101">>, at |-> "dx", a0 |-> v0101, a1 |-> v1101, t |-> dx],
                     [name |-> "xi101", ends |-> <<"v0101", "v1101">>, at |-> "dx", a0 |-> v0101, a1 |-> v1101, t |-> dx],
                     [name |-> "xi101", ends |-> <<"v0101", "v1101">>, at |-> "dx", a0 |-> v0101, a1 |-> v1101, t |-> dx],
                     [name |-> "xi011", ends |-> <<"v0011", "v1011">>, at |-> "dx", a0 |-> v0011, a1 |-> v1011, t |-> dx],
                     [name |-> "xi011", ends |-> <<"v0011", "v1011">>, at |-> "dx", a0 |-> v0011, a1 |-> v1011, t |-> dx],
                     [name |-> "xi011", ends |-> <<"v0011", "v1011">>, at |-> "dx", a0 |-> v0011, a1 |-> v1011, t |-> dx],
                     [name |-> "xi011", ends |-> <<"v0011", "v1011">>, at |-> "dx", a0 |-> v0011, a1 |-> v1011, t |-> dx],
                     [name |-> "xi111", ends |-> <<"v0111", "v1111">>, at |-> "dx", a0 |-> v0111, a1 |-> v1111, t |-> dx],
                     [name |-> "xi111", ends |-> <<"v0111", "v1111">>, at |-> "dx", a0 |-> v0111, a1 |-> v1111, t |-> dx],
                     [name |-> "xi111", ends |-> <<"v0111", "v1111">>, at |-> "dx", a0 |-> v0111, a1 |-> v1111, t |-> dx],
                     [name |-> "xi111", ends |-> <<"v0111", "v1111">>, at |-> "dx", a0 |-> v0111, a1 |-> v1111, t |-> dx],
                     [name |-> "yi00", ends |-> <<"xi000", "xi100">>, at |-> "dy", a0 |-> xi000, a1 |-> xi100, t |-> dy],
                     [name |-> "yi00", ends |-> <<"xi000", "xi100">>, at |-> "dy", a0 |-> xi000, a1 |-> xi100, t |-> dy],
                     [name |-> "yi00", ends |-> <<"xi000", "xi100">>, at |-> "dy", a0 |-> xi000, a1 |-> xi100, t |-> dy],
                     [name |-> "yi00", ends |-> <<"xi000", "xi100">>, at |-> "dy", a0 |-> xi000, a1 |-> xi100, t |-> dy],
                     [name |-> "yi10", ends |-> <<"xi010", "xi110">>, at |-> "dy", a0 |-> xi010, a1 |-> xi110, t |-> dy],
                     [name |-> "yi10", ends |-> <<"xi010", "xi110">>, at |-> "dy", a0 |-> xi010, a1 |-> xi110, t |-> dy],
                     [name |-> "yi10", ends |-> <<"xi010", "xi110">>, at |-> "dy", a0 |-> xi010, a1 |-> xi110, t |-> dy],
                     [name |-> "yi10", ends |-> <<"xi010", "xi110">>, at |-> "dy", a0 |-> xi010, a1 |-> xi110, t |-> dy],
                     [name |-> "yi01", ends |-> <<"xi001", "xi101">>, at |-> "dy", a0 |-> xi001, a1 |-> xi101, t |-> dy],
                     [name |-> "yi01", ends |-> <<"xi001", "xi101">>, at |-> "dy", a0 |-> xi001, a1 |-> xi101, t |-> dy],
                     [name |-> "yi01", ends |-> <<"xi001", "xi101">>, at |-> "dy", a0 |-> xi001, a1 |-> xi101, t |-> dy],
                     [name |-> "yi01", ends |-> <<"xi001", "xi101">>, at |-> "dy", a0 |-> xi001, a1 |-> xi101, t |-> dy],
                     [name |-> "yi11", ends |-> <<"xi011", "xi111">>, at |-> "dy", a0 |-> xi011, a1 |-> xi111, t |-> dy],
                     [name |-> "yi11", ends |-> <<"xi011", "xi111">>, at |-> "dy", a0 |-> xi011, a1 |-> xi111, t |-> dy],
                     [name |-> "yi11", ends |-> <<"xi011", "xi111">>, at |-> "dy", a0 |-> xi011, a1 |-> xi111, t |-> dy],
                     [name |-> "yi11", ends |-> <<"xi011", "xi111">>, at |-> "dy", a0 |-> xi011, a1 |-> xi111, t |-> dy],
                     [name |-> "zi0", ends |-> <<"yi00", "yi10">>, at |-> "dz", a0 |-> yi00, a1 |-> yi10, t |-> dz],
                     [name |-> "zi0", ends |-> <<"yi00", "yi10">>, at |-> "dz", a0 |-> yi00, a1 |-> yi10, t |-> dz],
                     [name |-> "zi0", ends |-> <<"yi00", "yi10">>, at |-> "dz", a0 |-> yi00, a1 |-> yi10, t |-> dz],
                     [name |-> "zi0", ends |-> <<"yi00", "yi10">>, at |-> "dz", a0 |-> yi00, a1 |-> yi10, t |-> dz],
                     [name |-> "zi1", ends |-> <<"yi01", "yi11">>, at |-> "dz", a0 |-> yi01, a1 |-> yi11, t |-> dz],
                     [name |-> "zi1", ends |-> <<"yi01", "yi11">>, at |-> "dz", a0 |-> yi01, a1 |-> yi11, t |-> dz],
                     [name |-> "zi1", ends |-> <<"yi01", "yi11">>, at |-> "dz", a0 |-> yi01, a1 |-> yi11, t |-> dz],
                     [name |-> "zi1", ends |-> <<"yi01", "yi11">>, at |-> "dz", a0 |-> yi01, a1 |-> yi11, t |-> dz],
                     [name |-> "ret", ends |-> <<"zi0", "zi1">>, at |-> "dt", a0 |-> zi0, a1 |-> zi1, t |-> dt],
                     [name |-> "ret", ends |-> <<"zi0", "zi1">>, at |-> "dt", a0 |-> zi0, a1 |-> zi1, t |-> dt],
                     [name |-> "ret", ends |-> <<"zi0", "zi1">>, at |-> "dt", a0 |-> zi0, a1 |-> zi1, t |-> dt],
                     [name |-> "ret", ends |-> <<"zi0", "zi1">>, at |-> "dt", a0 |-> zi0, a1 |-> zi1, t |-> dt]>>,
         ret |-> <<gradient_x, gradient_y, gradient_z, gradient_t>>]

(***************************************************************************)
(* The public functions and their adjoints.  Each returns a record: ret    *)
(* (the value returned) and seed (the caller's seed, passed by value) for a  *)
(* forward function; the by-reference arguments after the call for an      *)
(* adjoint.  The locals are kept beside them: lo / hi (corner indices),    *)
(* d (fractional offsets), h (heaviside selectors), and the seeds and      *)
(* results of the gradient-evaluator calls.                                *)
(***************************************************************************)

\* noise.h lines 551-559
noise_float(seed, x) ==
    LET dx == RSub[x, IntToR(Floor(x))]
        x0 == Floor(x)
        x1 == x0 + 1
    IN  [ret |-> noise_1d(seed, x0, x1, dx),
         seed |-> seed,
         lo |-> <<x0>>,
         hi |-> <<x1>>,
         d |-> <<dx>>]

\* noise.h lines 561-573: the += statements of adj_noise (float)
adj_noise_float_acc(adj_seed, adj_x, adj_ret, lo, hi, d, h, gradient) ==
    [adj_seed |-> adj_seed,
     adj_x |-> RAdd[adj_x, RMul[gradient, adj_ret]],
     lo |-> lo,
     hi |-> hi,
     d |-> d,
     h |-> h,
     gradient |-> <<gradient>>]

\* noise.h lines 561-573
adj_noise_float(seed, x, adj_seed, adj_x, adj_ret) ==
    LET dx == RSub[x, IntToR(Floor(x))]
        heaviside_x == IF RLt(dx, EPSILON) THEN Zero ELSE One
        x0 == Floor(x)
        x1 == x0 + 1
    IN  adj_noise_float_acc(adj_seed,
            adj_x,
            adj_ret,
            <<x0>>,
            <<x1>>,
            <<dx>>,
            <<heaviside_x>>,
            noise_1d_gradient(seed, x0, x1, dx, heaviside_x))

\* noise.h lines 575-587
noise_vec2(seed, xy) ==
    LET dx == RSub[xy[1], IntToR(Floor(xy[1]))]
        dy == RSub[xy[2], IntToR(Floor(xy[2]))]
        x0 == Floor(xy[1])
        y0 == Floor(xy[2])
        x1 == x0 + 1
        y1 == y0 + 1
    IN  [ret |-> noise_2d(seed, x0, y0, x1, y1, dx, dy),
         seed |-> seed,
         lo |-> <<x0, y0>>,
         hi |-> <<x1, y1>>,
         d |-> <<dx, dy>>]

\* noise.h lines 589-609: the += statements of adj_noise (vec2)
adj_noise_vec2_acc(adj_seed, adj_xy, adj_ret, lo, hi, d, h, gradient) ==
    [adj_seed |-> adj_seed,
     adj_xy |-> <<RAdd[adj_xy[1], RMul[gradient[1], adj_ret]],
                 RAdd[adj_xy[2], RMul[gradient[2], adj_ret]]>>,
     lo |-> lo,
     hi |-> hi,
     d |-> d,
     h |-> h,
     gradient |-> gradient]

\* noise.h lines 589-609
adj_noise_vec2(seed, xy, adj_seed, adj_xy, adj_ret) ==
    LET dx == RSub[xy[1], IntToR(Floor(xy[1]))]
        dy == RSub[xy[2], IntToR(Floor(xy[2]))]
        heaviside_x == IF RLt(dx, EPSILON) THEN Zero ELSE One
        heaviside_y == IF RLt(dy, EPSILON) THEN Zero ELSE One
        x0 == Floor(xy[1])
        y0 == Floor(xy[2])
        x1 == x0 + 1
        y1 == y0 + 1
    IN  adj_noise_vec2_acc(adj_seed,
            adj_xy,
            adj_ret,
            <<x0, y0>>,
            <<x1, y1>>,
            <<dx, dy>>,
            <<heaviside_x, heaviside_y>>,
            noise_2d_gradient(seed, x0, y0, x1, y1, dx, dy, heaviside_x, heaviside_y))

\* noise.h lines 611-626
noise_vec3(seed, xyz) ==
    LET dx == RSub[xyz[1], IntToR(Floor(xyz[1]))]
        dy == RSub[xyz[2], IntToR(Floor(xyz[2]))]
        dz == RSub[xyz[3], IntToR(Floor(xyz[3]))]
        x0 == Floor(xyz[1])
        y0 == Floor(xyz[2])
        z0 == Floor(xyz[3])
        x1 == x0 + 1
        y1 == y0 + 1
        z1 == z0 + 1
    IN  [ret |-> noise_3d(seed, x0, y0, z0, x1, y1, z1, dx, dy, dz),
         seed |-> seed,
         lo |-> <<x0, y0, z0>>,
         hi |-> <<x1, y1, z1>>,
         d |-> <<dx, dy, dz>>]

\* adj_noise (vec3) with = in place of += : the accumulator is overwritten
adj_noise_vec3_assign(adj_seed, adj_xyz, adj_ret, lo, hi, d, h, gradient) ==
    [adj_seed |-> adj_seed,
     adj_xyz |-> <<RMul[gradient[1], adj_ret],
                  RMul[gradient[2], adj_ret],
                  RMul[gradient[3], adj_ret]>>,
     lo |-> lo,
     hi |-> hi,
     d |-> d,
     h |-> h,
     gradient |-> gradient]

\* noise.h lines 628-653: the += statements of adj_noise (vec3)
adj_noise_vec3_acc(adj_seed, adj_xyz, adj_ret, lo, hi, d, h, gradient) ==
    [adj_seed |-> adj_seed,
     adj_xyz |-> <<RAdd[adj_xyz[1], RMul[gradient[1], adj_ret]],
                  RAdd[adj_xyz[2], RMul[gradient[2], adj_ret]],
                  RAdd[adj_xyz[3], RMul[gradient[3], adj_ret]]>>,
     lo |-> lo,
     hi |-> hi,
     d |-> d,
     h |-> h,
     gradient |-> gradient]

\* noise.h lines 628-653
adj_noise_vec3(seed, xyz, adj_seed, adj_xyz, adj_ret) ==
    LET dx == RSub[xyz[1], IntToR(Floor(xyz[1]))]
        dy == RSub[xyz[2], IntToR(Floor(xyz[2]))]
        dz == RSub[xyz[3], IntToR(Floor(xyz[3]))]
        heaviside_x == IF RLt(dx, EPSILON) THEN Zero ELSE One
        heaviside_y == IF RLt(dy, EPSILON) THEN Zero ELSE One
        heaviside_z == IF RLt(dz, EPSILON) THEN Zero ELSE One
        x0 == Floor(xyz[1])
        y0 == Floor(xyz[2])
        z0 == Floor(xyz[3])
        x1 == x0 + 1
        y1 == y0 + 1
        z1 == z0 + 1
    IN  adj_noise_vec3_acc(adj_seed,
            adj_xyz,
            adj_ret,
            <<x0, y0, z0>>,
            <<x1, y1, z1>>,
            <<dx, dy, dz>>,
            <<heaviside_x, heaviside_y, heaviside_z>>,
            noise_3d_gradient(seed, x0, y0, z0, x1, y1, z1, dx, dy, dz, heaviside_x, heaviside_y, heaviside_z))

\* noise.h lines 655-673
noise_vec4(seed, xyzt) ==
    LET dx == RSub[xyzt[1], IntToR(Floor(xyzt[1]))]
        dy == RSub[xyzt[2], IntToR(Floor(xyzt[2]))]
        dz == RSub[xyzt[3], IntToR(Floor(xyzt[3]))]
        dt == RSub[xyzt[4], IntToR(Floor(xyzt[4]))]
        x0 == Floor(xyzt[1])
        y0 == Floor(xyzt[2])
        z0 == Floor(xyzt[3])
        t0 == Floor(xyzt[4])
        x1 == x0 + 1
        y1 == y0 + 1
        z1 == z0 + 1
        t1 == t0 + 1
    IN  [ret |-> noise_4d(seed, x0, y0, z0, t0, x1, y1, z1, t1, dx, dy, dz, dt),
         seed |-> seed,
         lo |-> <<x0, y0, z0, t0>>,
         hi |-> <<x1, y1, z1, t1>>,
         d |-> <<dx, dy, dz, dt>>]

\* noise.h lines 675-707: the += statements of adj_noise (vec4)
adj_noise_vec4_acc(adj_seed, adj_xyzt, adj_ret, lo, hi, d, h, gradient) ==
    [adj_seed |-> adj_seed,
     adj_xyzt |-> <<RAdd[adj_xyzt[1], RMul[gradient[1], adj_ret]],
                   RAdd[adj_xyzt[2], RMul[gradient[2], adj_ret]],
                   RAdd[adj_xyzt[3], RMul[gradient[3], adj_ret]],
                   RAdd[adj_xyzt[4], RMul[gradient[4], adj_ret]]>>,
     lo |-> lo,
     hi |-> hi,
     d |-> d,
     h |-> h,
     gradient |-> gradient]

\* adj_noise (vec4) taking the selector of t from the offset of z
adj_noise_vec4_selector_of_z(seed, xyzt, adj_seed, adj_xyzt, adj_ret) ==
    LET dx == RSub[xyzt[1], IntToR(Floor(xyzt[1]))]
        dy == RSub[xyzt[2], IntToR(Floor(xyzt[2]))]
        dz == RSub[xyzt[3], IntToR(Floor(xyzt[3]))]
        dt == RSub[xyzt[4], IntToR(Floor(xyzt[4]))]
        heaviside_x == IF RLt(dx, EPSILON) THEN Zero ELSE One
        heaviside_y == IF RLt(dy, EPSILON) THEN Zero ELSE One
        heaviside_z == IF RLt(dz, EPSILON) THEN Zero ELSE One
        heaviside_t == IF RLt(dz, EPSILON) THEN Zero ELSE One
        x0 == Floor(xyzt[1])
        y0 == Floor(xyzt[2])
        z0 == Floor(xyzt[3])
        t0 == Floor(xyzt[4])
        x1 == x0 + 1
        y1 == y0 + 1
        z1 == z0 + 1
        t1 == t0 + 1
    IN  adj_noise_vec4_acc(adj_seed,
            adj_xyzt,
            adj_ret,
            <<x0, y0, z0, t0>>,
            <<x1, y1, z1, t1>>,
            <<dx, dy, dz, dt>>,
            <<heaviside_x, heaviside_y, heaviside_z, heaviside_t>>,
            noise_4d_gradient(seed, x0, y0, z0, t0, x1, y1, z1, t1, dx, dy, dz, dt, heaviside_x, heaviside_y, heaviside_z, heaviside_t))

\* noise.h lines 675-707
adj_noise_vec4(seed, xyzt, adj_seed, adj_xyzt, adj_ret) ==
    LET dx == RSub[xyzt[1], IntToR(Floor(xyzt[1]))]
        dy == RSub[xyzt[2], IntToR(Floor(xyzt[2]))]
        dz == RSub[xyzt[3], IntToR(Floor(xyzt[3]))]
        dt == RSub[xyzt[4], IntToR(Floor(xyzt[4]))]
        heaviside_x == IF RLt(dx, EPSILON) THEN Zero ELSE One
        heaviside_y == IF RLt(dy, EPSILON) THEN Zero ELSE One
        heaviside_z == IF RLt(dz, EPSILON) THEN Zero ELSE One
        heaviside_t == IF RLt(dt, EPSILON) THEN Zero ELSE One
        x0 == Floor(xyzt[1])
        y0 == Floor(xyzt[2])
        z0 == Floor(xyzt[3])
        t0 == Floor(xyzt[4])
        x1 == x0 + 1
        y1 == y0 + 1
        z1 == z0 + 1
        t1 == t0 + 1
    IN  adj_noise_vec4_acc(adj_seed,
            adj_xyzt,
            adj_ret,
            <<x0, y0, z0, t0>>,
            <<x1, y1, z1, t1>>,
            <<dx, dy, dz, dt>>,
            <<heaviside_x, heaviside_y, heaviside_z, heaviside_t>>,
            noise_4d_gradient(seed, x0, y0, z0, t0, x1, y1, z1, t1, dx, dy, dz, dt, heaviside_x, heaviside_y, heaviside_z, heaviside_t))

\* pnoise (float) with the low corner not reduced by the period
pnoise_float_unwrapped(seed, x, px) ==
    LET dx == RSub[x, IntToR(Floor(x))]
        x0 == Floor(x)
        x1 == mod(x0 + 1, px)
    IN  [ret |-> noise_1d(seed, x0, x1, dx),
         seed |-> seed,
         lo |-> <<x0>>,
         hi |-> <<x1>>,
         d |-> <<dx>>]

\* noise.h lines 711-719
pnoise_float(seed, x, px) ==
    LET dx == RSub[x, IntToR(Floor(x))]
        x0 == mod(Floor(x), px)
        x1 == mod(x0 + 1, px)
    IN  [ret |-> noise_1d(seed, x0, x1, dx),
         seed |-> seed,
         lo |-> <<x0>>,
         hi |-> <<x1>>,
         d |-> <<dx>>]

\* noise.h lines 721-733: the += statements of adj_pnoise (float)
adj_pnoise_float_acc(adj_seed, adj_x, adj_px, adj_ret, lo, hi, d, h, gradient) ==
    [adj_seed |-> adj_seed,
     adj_x |-> RAdd[adj_x, RMul[gradient, adj_ret]],
     adj_px |-> adj_px,
     lo |-> lo,
     hi |-> hi,
     d |-> d,
     h |-> h,
     gradient |-> <<gradient>>]

\* noise.h lines 721-733
adj_pnoise_float(seed, x, px, adj_seed, adj_x, adj_px, adj_ret) ==
    LET dx == RSub[x, IntToR(Floor(x))]
        heaviside_x == IF RLt(dx, EPSILON) THEN Zero ELSE One
        x0 == mod(Floor(x), px)
        x1 == mod(x0 + 1, px)
    IN  adj_pnoise_float_acc(adj_seed,
            adj_x,
            adj_px,
            adj_ret,
            <<x0>>,
            <<x1>>,
            <<dx>>,
            <<heaviside_x>>,
            noise_1d_gradient(seed, x0, x1, dx, heaviside_x))

\* noise.h lines 735-747
pnoise_vec2(seed, xy, px, py) ==
    LET dx == RSub[xy[1], IntToR(Floor(xy[1]))]
        dy == RSub[xy[2], IntToR(Floor(xy[2]))]
        x0 == mod(Floor(xy[1]), px)
        y0 == mod(Floor(xy[2]), py)
        x1 == mod(x0 + 1, px)
        y1 == mod(y0 + 1, py)
    IN  [ret |-> noise_2d(seed, x0, y0, x1, y1, dx, dy),
         seed |-> seed,
         lo |-> <<x0, y0>>,
         hi |-> <<x1, y1>>,
         d |-> <<dx, dy>>]

\* adj_pnoise (vec2) that also writes the period adjoint adj_px
adj_pnoise_vec2_period(adj_seed, adj_xy, adj_px, adj_py, adj_ret, lo, hi, d, h, gradient) ==
    [adj_seed |-> adj_seed,
     adj_xy |-> <<RAdd[adj_xy[1], RMul[gradient[1], adj_ret]],
                 RAdd[adj_xy[2], RMul[gradient[2], adj_ret]]>>,
     adj_px |-> adj_px + 1,
     adj_py |-> adj_py,
     lo |-> lo,
     hi |-> hi,
     d |-> d,
     h |-> h,
     gradient |-> gradient]

\* noise.h lines 749-769: the += statements of adj_pnoise (vec2)
adj_pnoise_vec2_acc(adj_seed, adj_xy, adj_px, adj_py, adj_ret, lo, hi, d, h, gradient) ==
    [adj_seed |-> adj_seed,
     adj_xy |-> <<RAdd[adj_xy[1], RMul[gradient[1], adj_ret]],
                 RAdd[adj_xy[2], RMul[gradient[2], adj_ret]]>>,
     adj_px |-> adj_px,
     adj_py |-> adj_py,
     lo |-> lo,
     hi |-> hi,
     d |-> d,
     h |-> h,
     gradient |-> gradient]

\* noise.h lines 749-769
adj_pnoise_vec2(seed, xy, px, py, adj_seed, adj_xy, adj_px, adj_py, adj_ret) ==
    LET dx == RSub[xy[1], IntToR(Floor(xy[1]))]
        dy == RSub[xy[2], IntToR(Floor(xy[2]))]
        heaviside_x == IF RLt(dx, EPSILON) THEN Zero ELSE One
        heaviside_y == IF RLt(dy, EPSILON) THEN Zero ELSE One
        x0 == mod(Floor(xy[1]), px)
        y0 == mod(Floor(xy[2]), py)
        x1 == mod(x0 + 1, px)
        y1 == mod(y0 + 1, py)
    IN  adj_pnoise_vec2_acc(adj_seed,
            adj_xy,
            adj_px,
            adj_py,
            adj_ret,
            <<x0, y0>>,
            <<x1, y1>>,
            <<dx, dy>>,
            <<heaviside_x, heaviside_y>>,
            noise_2d_gradient(seed, x0, y0, x1, y1, dx, dy, heaviside_x, heaviside_y))

\* pnoise (vec3) with the high x corner two cells after the low one
pnoise_vec3_high_two_ahead(seed, xyz, px, py, pz) ==
    LET dx == RSub[xyz[1], IntToR(Floor(xyz[1]))]
        dy == RSub[xyz[2], IntToR(Floor(xyz[2]))]
        dz == RSub[xyz[3], IntToR(Floor(xyz[3]))]
        x0 == mod(Floor(xyz[1]), px)
        y0 == mod(Floor(xyz[2]), py)
        z0 == mod(Floor(xyz[3]), pz)
        x1 == mod(x0 + 2, px)
        y1 == mod(y0 + 1, py)
        z1 == mod(z0 + 1, pz)
    IN  [ret |-> noise_3d(seed, x0, y0, z0, x1, y1, z1, dx, dy, dz),
         seed |-> seed,
         lo |-> <<x0, y0, z0>>,
         hi |-> <<x1, y1, z1>>,
         d |-> <<dx, dy, dz>>]

\* noise.h lines 771-786
pnoise_vec3(seed, xyz, px, py, pz) ==
    LET dx == RSub[xyz[1], IntToR(Floor(xyz[1]))]
        dy == RSub[xyz[2], IntToR(Floor(xyz[2]))]
        dz == RSub[xyz[3], IntToR(Floor(xyz[3]))]
        x0 == mod(Floor(xyz[1]), px)
        y0 == mod(Floor(xyz[2]), py)
        z0 == mod(Floor(xyz[3]), pz)
        x1 == mod(x0 + 1, px)
        y1 == mod(y0 + 1, py)
        z1 == mod(z0 + 1, pz)
    IN  [ret |-> noise_3d(seed, x0, y0, z0, x1, y1, z1, dx, dy, dz),
         seed |-> seed,
         lo |-> <<x0, y0, z0>>,
         hi |-> <<x1, y1, z1>>,
         d |-> <<dx, dy, dz>>]

\* adj_pnoise (vec3) adding the gradient without multiplying by adj_ret
adj_pnoise_vec3_unscaled(adj_seed, adj_xyz, adj_px, adj_py, adj_pz, adj_ret, lo, hi, d, h, gradient) ==
    [adj_seed |-> adj_seed,
     adj_xyz |-> <<RAdd[adj_xyz[1], gradient[1]],
                  RAdd[adj_xyz[2], gradient[2]],
                  RAdd[adj_xyz[3], gradient[3]]>>,
     adj_px |-> adj_px,
     adj_py |-> adj_py,
     adj_pz |-> adj_pz,
     lo |-> lo,
     hi |-> hi,
     d |-> d,
     h |-> h,
     gradient |-> gradient]

\* noise.h lines 788-813: the += statements of adj_pnoise (vec3)
adj_pnoise_vec3_acc(adj_seed, adj_xyz, adj_px, adj_py, adj_pz, adj_ret, lo, hi, d, h, gradient) ==
    [adj_seed |-> adj_seed,
     adj_xyz |-> <<RAdd[adj_xyz[1], RMul[gradient[1], adj_ret]],
                  RAdd[adj_xyz[2], RMul[gradient[2], adj_ret]],
                  RAdd[adj_xyz[3], RMul[gradient[3], adj_ret]]>>,
     adj_px |-> adj_px,
     adj_py |-> adj_py,
     adj_pz |-> adj_pz,
     lo |-> lo,
     hi |-> hi,
     d |-> d,
     h |-> h,
     gradient |-> gradient]

\* adj_pnoise (vec3) with the high y corner not reduced by the period
adj_pnoise_vec3_high_unwrapped(seed, xyz, px, py, pz, adj_seed, adj_xyz, adj_px, adj_py, adj_pz, adj_ret) ==
    LET dx == RSub[xyz[1], IntToR(Floor(xyz[1]))]
        dy == RSub[xyz[2], IntToR(Floor(xyz[2]))]
        dz == RSub[xyz[3], IntToR(Floor(xyz[3]))]
        heaviside_x == IF RLt(dx, EPSILON) THEN Zero ELSE One
        heaviside_y == IF RLt(dy, EPSILON) THEN Zero ELSE One
        heaviside_z == IF RLt(dz, EPSILON) THEN Zero ELSE One
        x0 == mod(Floor(xyz[1]), px)
        y0 == mod(Floor(xyz[2]), py)
        z0 == mod(Floor(xyz[3]), pz)
        x1 == mod(x0 + 1, px)
        y1 == y0 + 1
        z1 == mod(z0 + 1, pz)
    IN  adj_pnoise_vec3_acc(adj_seed,
            adj_xyz,
            adj_px,
            adj_py,
            adj_pz,
            adj_ret,
            <<x0, y0, z0>>,
            <<x1, y1, z1>>,
            <<dx, dy, dz>>,
            <<heaviside_x, heaviside_y, heaviside_z>>,
            noise_3d_gradient(seed, x0, y0, z0, x1, y1, z1, dx, dy, dz, heaviside_x, heaviside_y, heaviside_z))

\* noise.h lines 788-813
adj_pnoise_vec3(seed, xyz, px, py, pz, adj_seed, adj_xyz, adj_px, adj_py, adj_pz, adj_ret) ==
    LET dx == RSub[xyz[1], IntToR(Floor(xyz[1]))]
        dy == RSub[xyz[2], IntToR(Floor(xyz[2]))]
        dz == RSub[xyz[3], IntToR(Floor(xyz[3]))]
        heaviside_x == IF RLt(dx, EPSILON) THEN Zero ELSE One
        heaviside_y == IF RLt(dy, EPSILON) THEN Zero ELSE One
        heaviside_z == IF RLt(dz, EPSILON) THEN Zero ELSE One
        x0 == mod(Floor(xyz[1]), px)
        y0 == mod(Floor(xyz[2]), py)
        z0 == mod(Floor(xyz[3]), pz)
        x1 == mod(x0 + 1, px)
        y1 == mod(y0 + 1, py)
        z1 == mod(z0 + 1, pz)
    IN  adj_pnoise_vec3_acc(adj_seed,
            adj_xyz,
            adj_px,
            adj_py,
            adj_pz,
            adj_ret,
            <<x0, y0, z0>>,
            <<x1, y1, z1>>,
            <<dx, dy, dz>>,
            <<heaviside_x, heaviside_y, heaviside_z>>,
            noise_3d_gradient(seed, x0, y0, z0, x1, y1, z1, dx, dy, dz, heaviside_x, heaviside_y, heaviside_z))

\* noise.h lines 815-833
pnoise_vec4(seed, xyzt, px, py, pz, pt) ==
    LET dx == RSub[xyzt[1], IntToR(Floor(xyzt[1]))]
        dy == RSub[xyzt[2], IntToR(Floor(xyzt[2]))]
        dz == RSub[xyzt[3], IntToR(Floor(xyzt[3]))]
        dt == RSub[xyzt[4], IntToR(Floor(xyzt[4]))]
        x0 == mod(Floor(xyzt[1]), px)
        y0 == mod(Floor(xyzt[2]), py)
        z0 == mod(Floor(xyzt[3]), pz)
        t0 == mod(Floor(xyzt[4]), pt)
        x1 == mod(x0 + 1, px)
        y1 == mod(y0 + 1, py)
        z1 == mod(z0 + 1, pz)
        t1 == mod(t0 + 1, pt)
    IN  [ret |-> noise_4d(seed, x0, y0, z0, t0, x1, y1, z1, t1, dx, dy, dz, dt),
         seed |-> seed,
         lo |-> <<x0, y0, z0, t0>>,
         hi |-> <<x1, y1, z1, t1>>,
         d |-> <<dx, dy, dz, dt>>]

\* noise.h lines 835-867: the += statements of adj_pnoise (vec4)
adj_pnoise_vec4_acc(adj_seed, adj_xyzt, adj_px, adj_py, adj_pz, adj_pt, adj_ret, lo, hi, d, h, gradient) ==
    [adj_seed |-> adj_seed,
     adj_xyzt |-> <<RAdd[adj_xyzt[1], RMul[gradient[1], adj_ret]],
                   RAdd[adj_xyzt[2], RMul[gradient[2], adj_ret]],
                   RAdd[adj_xyzt[3], RMul[gradient[3], adj_ret]],
                   RAdd[adj_xyzt[4], RMul[gradient[4], adj_ret]]>>,
     adj_px |-> adj_px,
     adj_py |-> adj_py,
     adj_pz |-> adj_pz,
     adj_pt |-> adj_pt,
     lo |-> lo,
     hi |-> hi,
     d |-> d,
     h |-> h,
     gradient |-> gradient]

\* noise.h lines 835-867
adj_pnoise_vec4(seed, xyzt, px, py, pz, pt, adj_seed, adj_xyzt, adj_px, adj_py, adj_pz, adj_pt, adj_ret) ==
    LET dx == RSub[xyzt[1], IntToR(Floor(xyzt[1]))]
        dy == RSub[xyzt[2], IntToR(Floor(xyzt[2]))]
        dz == RSub[xyzt[3], IntToR(Floor(xyzt[3]))]
        dt == RSub[xyzt[4], IntToR(Floor(xyzt[4]))]
        heaviside_x == IF RLt(dx, EPSILON) THEN Zero ELSE One
        heaviside_y == IF RLt(dy, EPSILON) THEN Zero ELSE One
        heaviside_z == IF RLt(dz, EPSILON) THEN Zero ELSE One
        heaviside_t == IF RLt(dt, EPSILON) THEN Zero ELSE One
        x0 == mod(Floor(xyzt[1]), px)
        y0 == mod(Floor(xyzt[2]), py)
        z0 == mod(Floor(xyzt[3]), pz)
        t0 == mod(Floor(xyzt[4]), pt)
        x1 == mod(x0 + 1, px)
        y1 == mod(y0 + 1, py)
        z1 == mod(z0 + 1, pz)
        t1 == mod(t0 + 1, pt)
    IN  adj_pnoise_vec4_acc(adj_seed,
            adj_xyzt,
            adj_px,
            adj_py,
            adj_pz,
            adj_pt,
            adj_ret,
            <<x0, y0, z0, t0>>,
            <<x1, y1, z1, t1>>,
            <<dx, dy, dz, dt>>,
            <<heaviside_x, heaviside_y, heaviside_z, heaviside_t>>,
            noise_4d_gradient(seed, x0, y0, z0, t0, x1, y1, z1, t1, dx, dy, dz, dt, heaviside_x, heaviside_y, heaviside_z, heaviside_t))

\* curlnoise (vec2) with the sign on the other component: (g.y, -g.x)
curlnoise_vec2_ret_sign(seeds, lo, hi, d, h, grad_field) ==
    [ret |-> <<grad_field[2], RNeg(grad_field[1])>>,
     seed |-> seeds[1],
     lo |-> lo,
     hi |-> hi,
     d |-> d,
     h |-> h,
     seeds |-> seeds,
     grads |-> <<grad_field>>]

\* noise.h lines 871-889: the return statement of curlnoise (vec2)
curlnoise_vec2_ret(seeds, lo, hi, d, h, grad_field) ==
    [ret |-> <<RNeg(grad_field[2]), grad_field[1]>>,
     seed |-> seeds[1],
     lo |-> lo,
     hi |-> hi,
     d |-> d,
     h |-> h,
     seeds |-> seeds,
     grads |-> <<grad_field>>]

\* noise.h lines 871-889
curlnoise_vec2(seed, xy) ==
    LET dx == RSub[xy[1], IntToR(Floor(xy[1]))]
        dy == RSub[xy[2], IntToR(Floor(xy[2]))]
        heaviside_x == IF RLt(dx, EPSILON) THEN Zero ELSE One
        heaviside_y == IF RLt(dy, EPSILON) THEN Zero ELSE One
        x0 == Floor(xy[1])
        y0 == Floor(xy[2])
        x1 == x0 + 1
        y1 == y0 + 1
    IN  curlnoise_vec2_ret(<<seed>>,
            <<x0, y0>>,
            <<x1, y1>>,
            <<dx, dy>>,
            <<heaviside_x, heaviside_y>>,
            noise_2d_gradient(seed, x0, y0, x1, y1, dx, dy, heaviside_x, heaviside_y))

\* noise.h lines 890-890
adj_curlnoise_vec2(seed, xy, adj_seed, adj_xy, adj_ret) ==
    [adj_seed |-> adj_seed,
         adj_xy |-> adj_xy]

\* curlnoise (vec3) with the seed taken by reference: the reseeded seed reaches the caller
curlnoise_vec3_ret_seed_by_reference(seeds, lo, hi, d, h, grad_field_1, grad_field_2, grad_field_3) ==
    [ret |-> <<RSub[grad_field_3[2], grad_field_2[3]], RSub[grad_field_1[3], grad_field_3[1]], RSub[grad_field_2[1], grad_field_1[2]]>>,
     seed |-> seeds[3],
     lo |-> lo,
     hi |-> hi,
     d |-> d,
     h |-> h,
     seeds |-> seeds,
     grads |-> <<grad_field_1, grad_field_2, grad_field_3>>]

\* noise.h lines 892-924: the return statement of curlnoise (vec3)
curlnoise_vec3_ret(seeds, lo, hi, d, h, grad_field_1, grad_field_2, grad_field_3) ==
    [ret |-> <<RSub[grad_field_3[2], grad_field_2[3]], RSub[grad_field_1[3], grad_field_3[1]], RSub[grad_field_2[1], grad_field_1[2]]>>,
     seed |-> seeds[1],
     lo |-> lo,
     hi |-> hi,
     d |-> d,
     h |-> h,
     seeds |-> seeds,
     grads |-> <<grad_field_1, grad_field_2, grad_field_3>>]

\* curlnoise (vec3) with the third seed derived from the seed passed in
curlnoise_vec3_unchained(seed, xyz) ==
    LET dx == RSub[xyz[1], IntToR(Floor(xyz[1]))]
        dy == RSub[xyz[2], IntToR(Floor(xyz[2]))]
        dz == RSub[xyz[3], IntToR(Floor(xyz[3]))]
        heaviside_x == IF RLt(dx, EPSILON) THEN Zero ELSE One
        heaviside_y == IF RLt(dy, EPSILON) THEN Zero ELSE One
        heaviside_z == IF RLt(dz, EPSILON) THEN Zero ELSE One
        x0 == Floor(xyz[1])
        y0 == Floor(xyz[2])
        z0 == Floor(xyz[3])
        x1 == x0 + 1
        y1 == y0 + 1
        z1 == z0 + 1
        seed_1 == rand_init(seed, U32(10019689))
        seed_2 == rand_init(seed, U32(13112221))
    IN  curlnoise_vec3_ret(<<seed, seed_1, seed_2>>,
            <<x0, y0, z0>>,
            <<x1, y1, z1>>,
            <<dx, dy, dz>>,
            <<heaviside_x, heaviside_y, heaviside_z>>,
            noise_3d_gradient(seed, x0, y0, z0, x1, y1, z1, dx, dy, dz, heaviside_x, heaviside_y, heaviside_z),
            noise_3d_gradient(seed_1, x0, y0, z0, x1, y1, z1, dx, dy, dz, heaviside_x, heaviside_y, heaviside_z),
            noise_3d_gradient(seed_2, x0, y0, z0, x1, y1, z1, dx, dy, dz, heaviside_x, heaviside_y, heaviside_z))

\* noise.h lines 892-924
curlnoise_vec3(seed, xyz) ==
    LET dx == RSub[xyz[1], IntToR(Floor(xyz[1]))]
        dy == RSub[xyz[2], IntToR(Floor(xyz[2]))]
        dz == RSub[xyz[3], IntToR(Floor(xyz[3]))]
        heaviside_x == IF RLt(dx, EPSILON) THEN Zero ELSE One
        heaviside_y == IF RLt(dy, EPSILON) THEN Zero ELSE One
        heaviside_z == IF RLt(dz, EPSILON) THEN Zero ELSE One
        x0 == Floor(xyz[1])
        y0 == Floor(xyz[2])
        z0 == Floor(xyz[3])
        x1 == x0 + 1
        y1 == y0 + 1
        z1 == z0 + 1
        seed_1 == rand_init(seed, U32(10019689))
        seed_2 == rand_init(seed_1, U32(13112221))
    IN  curlnoise_vec3_ret(<<seed, seed_1, seed_2>>,
            <<x0, y0, z0>>,
            <<x1, y1, z1>>,
            <<dx, dy, dz>>,
            <<heaviside_x, heaviside_y, heaviside_z>>,
            noise_3d_gradient(seed, x0, y0, z0, x1, y1, z1, dx, dy, dz, heaviside_x, heaviside_y, heaviside_z),
            noise_3d_gradient(seed_1, x0, y0, z0, x1, y1, z1, dx, dy, dz, heaviside_x, heaviside_y, heaviside_z),
            noise_3d_gradient(seed_2, x0, y0, z0, x1, y1, z1, dx, dy, dz, heaviside_x, heaviside_y, heaviside_z))

\* adj_curlnoise (vec3) with a body that accumulates adj_ret
adj_curlnoise_vec3_accumulating(seed, xyz, adj_seed, adj_xyz, adj_ret) ==
    [adj_seed |-> adj_seed,
         adj_xyz |-> <<RAdd[adj_xyz[1], adj_ret[1]], RAdd[adj_xyz[2], adj_ret[2]], RAdd[adj_xyz[3], adj_ret[3]]>>]

\* noise.h lines 925-925
adj_curlnoise_vec3(seed, xyz, adj_seed, adj_xyz, adj_ret) ==
    [adj_seed |-> adj_seed,
         adj_xyz |-> adj_xyz]

\* curlnoise (vec4) reading the t component of the second field in place of z
curlnoise_vec4_ret_t(seeds, lo, hi, d, h, grad_field_1, grad_field_2, grad_field_3) ==
    [ret |-> <<RSub[grad_field_3[2], grad_field_2[4]], RSub[grad_field_1[3], grad_field_3[1]], RSub[grad_field_2[1], grad_field_1[2]]>>,
     seed |-> seeds[1],
     lo |-> lo,
     hi |-> hi,
     d |-> d,
     h |-> h,
     seeds |-> seeds,
     grads |-> <<grad_field_1, grad_field_2, grad_field_3>>]

\* noise.h lines 927-963: the return statement of curlnoise (vec4)
curlnoise_vec4_ret(seeds, lo, hi, d, h, grad_field_1, grad_field_2, grad_field_3) ==
    [ret |-> <<RSub[grad_field_3[2], grad_field_2[3]], RSub[grad_field_1[3], grad_field_3[1]], RSub[grad_field_2[1], grad_field_1[2]]>>,
     seed |-> seeds[1],
     lo |-> lo,
     hi |-> hi,
     d |-> d,
     h |-> h,
     seeds |-> seeds,
     grads |-> <<grad_field_1, grad_field_2, grad_field_3>>]

\* noise.h lines 927-963
curlnoise_vec4(seed, xyzt) ==
    LET dx == RSub[xyzt[1], IntToR(Floor(xyzt[1]))]
        dy == RSub[xyzt[2], IntToR(Floor(xyzt[2]))]
        dz == RSub[xyzt[3], IntToR(Floor(xyzt[3]))]
        dt == RSub[xyzt[4], IntToR(Floor(xyzt[4]))]
        heaviside_x == IF RLt(dx, EPSILON) THEN Zero ELSE One
        heaviside_y == IF RLt(dy, EPSILON) THEN Zero ELSE One
        heaviside_z == IF RLt(dz, EPSILON) THEN Zero ELSE One
        heaviside_t == IF RLt(dt, EPSILON) THEN Zero ELSE One
        x0 == Floor(xyzt[1])
        y0 == Floor(xyzt[2])
        z0 == Floor(xyzt[3])
        t0 == Floor(xyzt[4])
        x1 == x0 + 1
        y1 == y0 + 1
        z1 == z0 + 1
        t1 == t0 + 1
        seed_1 == rand_init(seed, U32(10019689))
        seed_2 == rand_init(seed_1, U32(13112221))
    IN  curlnoise_vec4_ret(<<seed, seed_1, seed_2>>,
            <<x0, y0, z0, t0>>,
            <<x1, y1, z1, t1>>,
            <<dx, dy, dz, dt>>,
            <<heaviside_x, heaviside_y, heaviside_z, heaviside_t>>,
            noise_4d_gradient(seed, x0, y0, z0, t0, x1, y1, z1, t1, dx, dy, dz, dt, heaviside_x, heaviside_y, heaviside_z, heaviside_t),
            noise_4d_gradient(seed_1, x0, y0, z0, t0, x1, y1, z1, t1, dx, dy, dz, dt, heaviside_x, heaviside_y, heaviside_z, heaviside_t),
            noise_4d_gradient(seed_2, x0, y0, z0, t0, x1, y1, z1, t1, dx, dy, dz, dt, heaviside_x, heaviside_y, heaviside_z, heaviside_t))

\* noise.h lines 964-964
adj_curlnoise_vec4(seed, xyzt, adj_seed, adj_xyzt, adj_ret) ==
    [adj_seed |-> adj_seed,
         adj_xyzt |-> adj_xyzt]

(***************************************************************************)
(* The state machine.  mem is the caller's storage: its seed and the       *)
(* adjoint accumulators handed to the adjoint functions by reference.      *)
(* hist is the sequence of calls made so far, each with its arguments,     *)
(* the storage before the call and the values the call computed.  A run    *)
(* works in one dimensionality dim.  A wide run (Spec) applies one call    *)
(* to inputs drawn from the full input sets; a sequence run (SpecSeq)      *)
(* makes up to MaxCalls calls on a small input set.                        *)
(***************************************************************************)
VARIABLES mem, hist, budget, dim, wide

vars == <<mem, hist, budget, dim, wide>>

Dims == 1..4

Seeds == {U32(s) : s \in 0..MaxSeed}

AdjRets == IF wide THEN {One} \cup {IntToR(-a) : a \in 1..MaxAdj}
                   ELSE {One, R(-1, 2)}

\* the points of a D-dimensional grid of half-integers
Grid(D, n) == [1..D -> {R(i, 2) : i \in -n..n}]
\* three lines of half-integer points: equal, ascending and alternating axes
Uniform(D, n) == [k \in 1..D |-> R(n, 2)]
Stair(D, n) == [k \in 1..D |-> R(n + k - 1, 2)]
Alternate(D, n) == [k \in 1..D |-> R(IF k % 2 = 1 THEN n ELSE -n, 2)]
\* a line of points whose coordinates are all integers
Lattice(D, n) == [k \in 1..D |-> IntToR(IF k % 2 = 1 THEN n ELSE n + 1)]

Coords(D) ==
    IF ~wide THEN {Stair(D, -1)}
    ELSE IF D = 1 THEN {<<R(n, 4)>> : n \in -2 * MaxC..2 * MaxC}
    ELSE IF D = 2 THEN Grid(2, MaxC)
    ELSE UNION {{Uniform(D, n), Stair(D, n), Alternate(D, n), Lattice(D, n)} : n \in -MaxCHi..MaxCHi}

Periods(D) ==
    IF ~wide THEN {[k \in 1..D |-> 2]}
    ELSE IF D <= 2 THEN {[k \in 1..D |-> p] : p \in -1..MaxPeriod}
                        \cup {[k \in 1..D |-> p + k - 1] : p \in -1..MaxPeriod}
    ELSE {[k \in 1..D |-> p] : p \in -1..MaxPeriod}

\* adj_ret of adj_curlnoise is a vector: vec2 for 2D input, vec3 for 3D and 4D
CurlAdjRets(D) == {[k \in 1..(IF D = 2 THEN 2 ELSE 3) |-> a] : a \in AdjRets}

\* An integer division by zero (a period of 0) either traps or yields a value.
Outcomes(p) == {"run"} \cup (IF \E k \in DOMAIN p : p[k] = 0 THEN {"trap"} ELSE {})

ZeroMem(s) ==
    [seed |-> s, adj_seed |-> U32(0),
     adj_x |-> Zero, adj_xy |-> <<Zero, Zero>>, adj_xyz |-> <<Zero, Zero, Zero>>,
     adj_xyzt |-> <<Zero, Zero, Zero, Zero>>,
     adj_px |-> 0, adj_py |-> 0, adj_pz |-> 0, adj_pt |-> 0]

UsedMem(s) ==
    [seed |-> s, adj_seed |-> U32(7),
     adj_x |-> R(1, 2), adj_xy |-> <<R(1, 2), R(-1, 1)>>,
     adj_xyz |-> <<R(1, 2), R(-1, 1), R(2, 1)>>,
     adj_xyzt |-> <<R(1, 2), R(-1, 1), R(2, 1), R(-3, 2)>>,
     adj_px |-> 3, adj_py |-> 5, adj_pz |-> 7, adj_pt |-> 9]

Init ==
    /\ wide = TRUE
    /\ dim \in Dims
    /\ budget = 1
    /\ hist = <<>>
    /\ \E s \in Seeds : mem \in {ZeroMem(s), UsedMem(s)}

InitSeq ==
    /\ wide = FALSE
    /\ dim \in Dims
    /\ budget = MaxCalls
    /\ hist = <<>>
    /\ mem = UsedMem(U32(1))

Entry(op, coord, period, adj_ret, status, out) ==
    [op |-> op, dim |-> dim, seed |-> mem.seed, coord |-> coord, period |-> period,
     adj_ret |-> adj_ret, pre |-> mem, status |-> status, out |-> out]

Trapped == [trap |-> TRUE]

\* a forward call: the result is recorded; the seed was passed by value
Forward(op, coord, period, r) ==
    /\ mem' = [mem EXCEPT !.seed = r.seed]
    /\ hist' = Append(hist, Entry(op, coord, period, Zero, "ok", r))
    /\ budget' = budget - 1
    /\ UNCHANGED <<dim, wide>>

\* a call that trapped in the integer division: nothing was written
Trap(op, coord, period, adj_ret) ==
    /\ hist' = Append(hist, Entry(op, coord, period, adj_ret, "trap", Trapped))
    /\ budget' = budget - 1
    /\ UNCHANGED <<mem, dim, wide>>

\* the caller's storage after a call that left r in its by-reference arguments
WriteBack(m, r) == [f \in DOMAIN m |-> IF f \in DOMAIN r THEN r[f] ELSE m[f]]

\* an adjoint call: its by-reference arguments are the caller's accumulators
Adjoint(op, coord, period, adj_ret, r) ==
    /\ mem' = WriteBack(mem, r)
    /\ hist' = Append(hist, Entry(op, coord, period, adj_ret, "ok", r))
    /\ budget' = budget - 1
    /\ UNCHANGED <<dim, wide>>

Noise1 ==
    /\ budget > 0 /\ dim = 1
    /\ \E c \in Coords(1) :
         Forward("noise", c, <<>>, noise_float(mem.seed, c[1]))

AdjNoise1 ==
    /\ budget > 0 /\ dim = 1
    /\ \E c \in Coords(1), adj_ret \in AdjRets :
         Adjoint("adj_noise", c, <<>>, adj_ret,
                 adj_noise_float(mem.seed, c[1], mem.adj_seed, mem.adj_x, adj_ret))

Pnoise1 ==
    /\ budget > 0 /\ dim = 1
    /\ \E c \in Coords(1), p \in Periods(1) : \E o \in Outcomes(p) :
         IF o = "trap" THEN Trap("pnoise", c, p, Zero)
         ELSE Forward("pnoise", c, p, pnoise_float(mem.seed, c[1], p[1]))

AdjPnoise1 ==
    /\ budget > 0 /\ dim = 1
    /\ \E c \in Coords(1), p \in Periods(1), adj_ret \in AdjRets : \E o \in Outcomes(p) :
         IF o = "trap" THEN Trap("adj_pnoise", c, p, adj_ret)
         ELSE Adjoint("adj_pnoise", c, p, adj_ret,
                      adj_pnoise_float(mem.seed, c[1], p[1], mem.adj_seed, mem.adj_x,
                                        mem.adj_px, adj_ret))

Noise2 ==
    /\ budget > 0 /\ dim = 2
    /\ \E c \in Coords(2) :
         Forward("noise", c, <<>>, noise_vec2(mem.seed, c))

AdjNoise2 ==
    /\ budget > 0 /\ dim = 2
    /\ \E c \in Coords(2), adj_ret \in AdjRets :
         Adjoint("adj_noise", c, <<>>, adj_ret,
                 adj_noise_vec2(mem.seed, c, mem.adj_seed, mem.adj_xy, adj_ret))

Pnoise2 ==
    /\ budget > 0 /\ dim = 2
    /\ \E c \in Coords(2), p \in Periods(2) : \E o \in Outcomes(p) :
         IF o = "trap" THEN Trap("pnoise", c, p, Zero)
         ELSE Forward("pnoise", c, p, pnoise_vec2(mem.seed, c, p[1], p[2]))

AdjPnoise2 ==
    /\ budget > 0 /\ dim = 2
    /\ \E c \in Coords(2), p \in Periods(2), adj_ret \in AdjRets : \E o \in Outcomes(p) :
         IF o = "trap" THEN Trap("adj_pnoise", c, p, adj_ret)
         ELSE Adjoint("adj_pnoise", c, p, adj_ret,
                      adj_pnoise_vec2(mem.seed, c, p[1], p[2], mem.adj_seed, mem.adj_xy,
                                        mem.adj_px, mem.adj_py, adj_ret))

Curlnoise2 ==
    /\ budget > 0 /\ dim = 2
    /\ \E c \in Coords(2) :
         Forward("curlnoise", c, <<>>, curlnoise_vec2(mem.seed, c))

AdjCurlnoise2 ==
    /\ budget > 0 /\ dim = 2
    /\ \E c \in Coords(2), adj_ret \in CurlAdjRets(2) :
         Adjoint("adj_curlnoise", c, <<>>, adj_ret,
                 adj_curlnoise_vec2(mem.seed, c, mem.adj_seed, mem.adj_xy, adj_ret))

Noise3 ==
    /\ budget > 0 /\ dim = 3
    /\ \E c \in Coords(3) :
         Forward("noise", c, <<>>, noise_vec3(mem.seed, c))

AdjNoise3 ==
    /\ budget > 0 /\ dim = 3
    /\ \E c \in Coords(3), adj_ret \in AdjRets :
         Adjoint("adj_noise", c, <<>>, adj_ret,
                 adj_noise_vec3(mem.seed, c, mem.adj_seed, mem.adj_xyz, adj_ret))

Pnoise3 ==
    /\ budget > 0 /\ dim = 3
    /\ \E c \in Coords(3), p \in Periods(3) : \E o \in Outcomes(p) :
         IF o = "trap" THEN Trap("pnoise", c, p, Zero)
         ELSE Forward("pnoise", c, p, pnoise_vec3(mem.seed, c, p[1], p[2], p[3]))

AdjPnoise3 ==
    /\ budget > 0 /\ dim = 3
    /\ \E c \in Coords(3), p \in Periods(3), adj_ret \in AdjRets : \E o \in Outcomes(p) :
         IF o = "trap" THEN Trap("adj_pnoise", c, p, adj_ret)
         ELSE Adjoint("adj_pnoise", c, p, adj_ret,
                      adj_pnoise_vec3(mem.seed, c, p[1], p[2], p[3], mem.adj_seed, mem.adj_xyz,
                                        mem.adj_px, mem.adj_py, mem.adj_pz, adj_ret))

Curlnoise3 ==
    /\ budget > 0 /\ dim = 3
    /\ \E c \in Coords(3) :
         Forward("curlnoise", c, <<>>, curlnoise_vec3(mem.seed, c))

AdjCurlnoise3 ==
    /\ budget > 0 /\ dim = 3
    /\ \E c \in Coords(3), adj_ret \in CurlAdjRets(3) :
         Adjoint("adj_curlnoise", c, <<>>, adj_ret,
                 adj_curlnoise_vec3(mem.seed, c, mem.adj_seed, mem.adj_xyz, adj_ret))

Noise4 ==
    /\ budget > 0 /\ dim = 4
    /\ \E c \in Coords(4) :
         Forward("noise", c, <<>>, noise_vec4(mem.seed, c))

AdjNoise4 ==
    /\ budget > 0 /\ dim = 4
    /\ \E c \in Coords(4), adj_ret \in AdjRets :
         Adjoint("adj_noise", c, <<>>, adj_ret,
                 adj_noise_vec4(mem.seed, c, mem.adj_seed, mem.adj_xyzt, adj_ret))

Pnoise4 ==
    /\ budget > 0 /\ dim = 4
    /\ \E c \in Coords(4), p \in Periods(4) : \E o \in Outcomes(p) :
         IF o = "trap" THEN Trap("pnoise", c, p, Zero)
         ELSE Forward("pnoise", c, p, pnoise_vec4(mem.seed, c, p[1], p[2], p[3], p[4]))

AdjPnoise4 ==
    /\ budget > 0 /\ dim = 4
    /\ \E c \in Coords(4), p \in Periods(4), adj_ret \in AdjRets : \E o \in Outcomes(p) :
         IF o = "trap" THEN Trap("adj_pnoise", c, p, adj_ret)
         ELSE Adjoint("adj_pnoise", c, p, adj_ret,
                      adj_pnoise_vec4(mem.seed, c, p[1], p[2], p[3], p[4], mem.adj_seed, mem.adj_xyzt,
                                        mem.adj_px, mem.adj_py, mem.adj_pz, mem.adj_pt, adj_ret))

Curlnoise4 ==
    /\ budget > 0 /\ dim = 4
    /\ \E c \in Coords(4) :
         Forward("curlnoise", c, <<>>, curlnoise_vec4(mem.seed, c))

AdjCurlnoise4 ==
    /\ budget > 0 /\ dim = 4
    /\ \E c \in Coords(4), adj_ret \in CurlAdjRets(4) :
         Adjoint("adj_curlnoise", c, <<>>, adj_ret,
                 adj_curlnoise_vec4(mem.seed, c, mem.adj_seed, mem.adj_xyzt, adj_ret))

Next ==
    \/ Noise1
    \/ AdjNoise1
    \/ Pnoise1
    \/ AdjPnoise1
    \/ Noise2
    \/ AdjNoise2
    \/ Pnoise2
    \/ AdjPnoise2
    \/ Curlnoise2
    \/ AdjCurlnoise2
    \/ Noise3
    \/ AdjNoise3
    \/ Pnoise3
    \/ AdjPnoise3
    \/ Curlnoise3
    \/ AdjCurlnoise3
    \/ Noise4
    \/ AdjNoise4
    \/ Pnoise4
    \/ AdjPnoise4
    \/ Curlnoise4
    \/ AdjCurlnoise4

Spec == Init /\ [][Next]_vars

SpecSeq == InitSeq /\ [][Next]_vars

Last == hist[Len(hist)]

(***************************************************************************)
(* Function runs (SpecFn).  The internal functions of noise.h are pure;    *)
(* a function run draws the arguments of one of them into mem and applies  *)
(* it once, recording the result in hist.  dim = 0 stands for the scalar   *)
(* functions (smootherstep .. interpolate_gradient), dim = D for the       *)
(* evaluators noise_D and noise_D_gradient.                                *)
(***************************************************************************)
\* the blend parameters t are k/8 from -MaxT/8 to 1 + MaxT/8
Ts == {R(k, 8) : k \in -MaxT..(8 + MaxT)}
EndPoints == {R(-1, 1), R(1, 2), R(2, 1)}
EndPointPartials == {Zero, R(-3, 2)}

ScalarArgs ==
    [t : Ts, a0 : EndPoints, a1 : EndPoints,
     d_a0 : EndPointPartials, d_a1 : EndPointPartials, d_t : {Zero, One}]

\* cells: low corner indices, equal or ascending along the axes
Cells(D) == UNION {{[k \in 1..D |-> n], [k \in 1..D |-> n + k - 1]} : n \in -1..MaxCell}

\* offsets: the two ends of a cell and its middle
Offsets == {Zero, R(1, 2), One}

\* offset vectors: every combination up to 2D; above, one axis apart from the others
OffsetVecs(D) ==
    IF D <= 2 THEN [1..D -> Offsets]
    ELSE {[k \in 1..D |-> IF k = a THEN f ELSE g] : a \in 1..D, f \in Offsets, g \in Offsets}

\* selector vectors: all 1, all 0, and 0 on the axes whose offset is 0
SelectorVecs(d) ==
    {[k \in DOMAIN d |-> One], [k \in DOMAIN d |-> Zero],
     [k \in DOMAIN d |-> IF d[k] = Zero THEN Zero ELSE One]}

EvaluatorArgs(D) ==
    UNION {{[seed |-> s, lo |-> c, hi |-> [k \in 1..D |-> c[k] + 1], d |-> f, h |-> g] :
               s \in Seeds, c \in Cells(D), g \in SelectorVecs(f)} : f \in OffsetVecs(D)}

InitFn ==
    /\ wide = TRUE
    /\ budget = 1
    /\ hist = <<>>
    /\ dim \in 0..4
    /\ mem \in (IF dim = 0 THEN ScalarArgs ELSE EvaluatorArgs(dim))

\* the function fn applied to the arguments in mem returned out
Apply(fn, out) ==
    /\ hist' = Append(hist, [op |-> fn, dim |-> dim, args |-> mem, out |-> out])
    /\ budget' = budget - 1
    /\ UNCHANGED <<mem, dim, wide>>

Smootherstep ==
    /\ budget > 0 /\ dim = 0
    /\ Apply("smootherstep", smootherstep(mem.t))

SmootherstepGradient ==
    /\ budget > 0 /\ dim = 0
    /\ Apply("smootherstep_gradient", smootherstep_gradient(mem.t))

Interpolate ==
    /\ budget > 0 /\ dim = 0
    /\ Apply("interpolate", interpolate(mem.a0, mem.a1, mem.t))

InterpolateGradient ==
    /\ budget > 0 /\ dim = 0
    /\ Apply("interpolate_gradient",
             interpolate_gradient(mem.a0, mem.a1, mem.t, mem.d_a0, mem.d_a1, mem.d_t))

Noise1d ==
    /\ budget > 0 /\ dim = 1
    /\ Apply("noise_1d", noise_1d(mem.seed, mem.lo[1], mem.hi[1], mem.d[1]))

Noise1dGradient ==
    /\ budget > 0 /\ dim = 1
    /\ Apply("noise_1d_gradient",
             <<noise_1d_gradient(mem.seed, mem.lo[1], mem.hi[1], mem.d[1], mem.h[1])>>)

Noise2d ==
    /\ budget > 0 /\ dim = 2
    /\ Apply("noise_2d",
             noise_2d(mem.seed, mem.lo[1], mem.lo[2], mem.hi[1], mem.hi[2], mem.d[1], mem.d[2]))

Noise2dGradient ==
    /\ budget > 0 /\ dim = 2
    /\ Apply("noise_2d_gradient",
             noise_2d_gradient(mem.seed, mem.lo[1], mem.lo[2], mem.hi[1], mem.hi[2],
                               mem.d[1], mem.d[2], mem.h[1], mem.h[2]))

Noise3d ==
    /\ budget > 0 /\ dim = 3
    /\ Apply("noise_3d",
             noise_3d(mem.seed, mem.lo[1], mem.lo[2], mem.lo[3], mem.hi[1], mem.hi[2], mem.hi[3],
                      mem.d[1], mem.d[2], mem.d[3]))

Noise3dGradient ==
    /\ budget > 0 /\ dim = 3
    /\ Apply("noise_3d_gradient",
             noise_3d_gradient(mem.seed, mem.lo[1], mem.lo[2], mem.lo[3],
                               mem.hi[1], mem.hi[2], mem.hi[3],
                               mem.d[1], mem.d[2], mem.d[3], mem.h[1], mem.h[2], mem.h[3]))

Noise4d ==
    /\ budget > 0 /\ dim = 4
    /\ Apply("noise_4d",
             noise_4d(mem.seed, mem.lo[1], mem.lo[2], mem.lo[3], mem.lo[4],
                      mem.hi[1], mem.hi[2], mem.hi[3], mem.hi[4],
                      mem.d[1], mem.d[2], mem.d[3], mem.d[4]))

Noise4dGradient ==
    /\ budget > 0 /\ dim = 4
    /\ Apply("noise_4d_gradient",
             noise_4d_gradient(mem.seed, mem.lo[1], mem.lo[2], mem.lo[3], mem.lo[4],
                               mem.hi[1], mem.hi[2], mem.hi[3], mem.hi[4],
                               mem.d[1], mem.d[2], mem.d[3], mem.d[4],
                               mem.h[1], mem.h[2], mem.h[3], mem.h[4]))

NextFn ==
    \/ Smootherstep
    \/ SmootherstepGradient
    \/ Interpolate
    \/ InterpolateGradient
    \/ Noise1d
    \/ Noise1dGradient
    \/ Noise2d
    \/ Noise2dGradient
    \/ Noise3d
    \/ Noise3dGradient
    \/ Noise4d
    \/ Noise4dGradient

SpecFn == InitFn /\ [][NextFn]_vars

(***************************************************************************)
(* Properties.  Each is stated over the last call made (Last) or over the  *)
(* whole history of calls (hist), against a value computed apart from the  *)
(* function under test.                                                    *)
(***************************************************************************)
Called == Len(hist) > 0

IsAdjoint(e) == e.op \in {"adj_noise", "adj_pnoise", "adj_curlnoise"}
IsForward(e) == e.op \in {"noise", "pnoise", "curlnoise"}
Ran(e) == e.status = "ok"

\* the coordinate accumulator of dimensionality D in the storage m, as a vector
AdjCoord(m, D) ==
    CASE D = 1 -> <<m.adj_x>>
      [] D = 2 -> m.adj_xy
      [] D = 3 -> m.adj_xyz
      [] OTHER -> m.adj_xyzt

ZeroVec(D) == [k \in 1..D |-> Zero]
AllOne(h) == \A k \in DOMAIN h : h[k] = One

\* x - floor(x), and the selector that is 0 on a lattice plane and 1 elsewhere
Frac(x) == RSub[x, IntToR(Floor(x))]
Selector(x) == IF RLt(Frac(x), EPSILON) THEN Zero ELSE One

\* the gradient evaluator of dimensionality D at given corners, offsets, selectors
GradientEvaluator(D, s, lo, hi, d, h) ==
    CASE D = 1 -> <<noise_1d_gradient(s, lo[1], hi[1], d[1], h[1])>>
      [] D = 2 -> noise_2d_gradient(s, lo[1], lo[2], hi[1], hi[2], d[1], d[2], h[1], h[2])
      [] D = 3 -> noise_3d_gradient(s, lo[1], lo[2], lo[3], hi[1], hi[2], hi[3],
                                    d[1], d[2], d[3], h[1], h[2], h[3])
      [] OTHER -> noise_4d_gradient(s, lo[1], lo[2], lo[3], lo[4], hi[1], hi[2], hi[3], hi[4],
                                    d[1], d[2], d[3], d[4], h[1], h[2], h[3], h[4])

\* the gradient evaluator at the cell of the coordinate c: corners floor and
\* floor + 1, offsets c - floor(c), selectors by the offsets
GradientAt(D, s, c) ==
    GradientEvaluator(D, s, [k \in 1..D |-> Floor(c[k])], [k \in 1..D |-> Floor(c[k]) + 1],
                      [k \in 1..D |-> Frac(c[k])], [k \in 1..D |-> Selector(c[k])])

\* v + g * a, component by component
Accumulated(v, g, a) == [k \in DOMAIN v |-> RAdd[v[k], RMul[g[k], a]]]

\* C1: one call of adj_noise, in every dimensionality, leaves in the coordinate
\* accumulator its value before the call plus G * adj_ret, G being the result of
\* noise_D_gradient for the same seed at corners floor and floor + 1, with the
\* offsets and heaviside selectors of the coordinate.
C1_AdjNoiseAccumulatesGradient ==
    (Called /\ Last.op = "adj_noise") =>
        AdjCoord(mem, Last.dim) =
            Accumulated(AdjCoord(Last.pre, Last.dim),
                        GradientAt(Last.dim, Last.seed, Last.coord), Last.adj_ret)

\* a 3D call on a zero accumulator with adj_ret = 1 left the (non-zero) gradient
C1_Witness ==
    /\ Called /\ Last.op = "adj_noise" /\ Last.dim = 3
    /\ Last.adj_ret = One
    /\ Last.pre.adj_xyz = ZeroVec(3)
    /\ mem.adj_xyz = GradientAt(3, Last.seed, Last.coord)
    /\ mem.adj_xyz # ZeroVec(3)

\* The derivative of the value expression of noise_D, taken symbolically: each
\* quantity is carried as a pair <<value, partial with respect to offset k>>.
\* the fade curve 6t^5 - 15t^4 + 10t^3 and its slope 30t^4 - 60t^3 + 30t^2
RPow(t, n) == IF n = 2 THEN RMul[t, t]
              ELSE IF n = 3 THEN RMul[RMul[t, t], t]
              ELSE IF n = 4 THEN RMul[RMul[t, t], RMul[t, t]]
              ELSE RMul[RMul[RMul[t, t], RMul[t, t]], t]
Fade(t) ==
    RAdd[RSub[RMul[<<6, 1>>, RPow(t, 5)], RMul[<<15, 1>>, RPow(t, 4)]],
         RMul[<<10, 1>>, RPow(t, 3)]]
FadeSlope(t) ==
    RAdd[RSub[RMul[<<30, 1>>, RPow(t, 4)], RMul[<<60, 1>>, RPow(t, 3)]],
         RMul[<<30, 1>>, RPow(t, 2)]]

LatticeGradient(D, s, i) ==
    CASE D = 1 -> <<random_gradient_1d(s, i[1])>>
      [] D = 2 -> random_gradient_2d(s, i[1], i[2])
      [] D = 3 -> random_gradient_3d(s, i[1], i[2], i[3])
      [] OTHER -> random_gradient_4d(s, i[1], i[2], i[3], i[4])

RECURSIVE DotUpTo(_, _, _)
DotUpTo(n, a, b) == IF n = 0 THEN Zero ELSE RAdd[DotUpTo(n - 1, a, b), RMul[a[n], b[n]]]

\* the corner chosen by c (0: low, 1: high on each axis): <<its dot product, the
\* partial of the dot product with respect to offset k>>
CornerDual(D, k, s, lo, hi, d, c) ==
    LET g == LatticeGradient(D, s, [a \in 1..D |-> IF c[a] = 0 THEN lo[a] ELSE hi[a]])
        o == [a \in 1..D |-> IF c[a] = 0 THEN d[a] ELSE RSub[d[a], One]]
    IN  <<DotUpTo(D, o, g), g[k]>>

\* the blend over the axes 1 .. j (x innermost), the axes above j fixed by c
RECURSIVE BlendDual(_, _, _, _, _, _, _, _)
BlendDual(j, c, D, k, s, lo, hi, d) ==
    IF j = 0 THEN CornerDual(D, k, s, lo, hi, d, c)
    ELSE LET a0 == BlendDual(j - 1, [c EXCEPT ![j] = 0], D, k, s, lo, hi, d)
             a1 == BlendDual(j - 1, [c EXCEPT ![j] = 1], D, k, s, lo, hi, d)
             w == Fade(d[j])
             dw == IF j = k THEN FadeSlope(d[j]) ELSE Zero
         IN  <<RAdd[a0[1], RMul[RSub[a1[1], a0[1]], w]],
               RAdd[RAdd[a0[2], RMul[RSub[a1[2], a0[2]], w]],
                    RMul[RSub[a1[1], a0[1]], dw]]>>

\* the value of noise_D and its partial derivative along axis k
ValueDual(D, k, s, lo, hi, d) == BlendDual(D, [a \in 1..D |-> 0], D, k, s, lo, hi, d)
AxisPartial(D, k, s, lo, hi, d) == ValueDual(D, k, s, lo, hi, d)[2]

\* the evaluator result recorded by the last call (an adjoint of noise or pnoise)
HasGradient(e) == e.op \in {"adj_noise", "adj_pnoise"} /\ Ran(e)

\* C2: with all heaviside selectors 1, component k of the result of
\* noise_D_gradient is the partial derivative of the value of noise_D along
\* axis k (axis order x, y, z, t), in every dimensionality.
C2_GradientIsAxisPartial ==
    (Called /\ HasGradient(Last) /\ AllOne(Last.out.h)) =>
        \A k \in 1..Last.dim :
            Last.out.gradient[k] =
                AxisPartial(Last.dim, k, Last.seed, Last.out.lo, Last.out.hi, Last.out.d)

\* the 3D evaluator returned the y-partial as component x and the x-partial as
\* component y, the two being different
C2_Witness ==
    /\ Called /\ Last.op = "adj_noise" /\ Last.dim = 3 /\ AllOne(Last.out.h)
    /\ Last.out.gradient[1] =
           AxisPartial(3, 2, Last.seed, Last.out.lo, Last.out.hi, Last.out.d)
    /\ Last.out.gradient[2] =
           AxisPartial(3, 1, Last.seed, Last.out.lo, Last.out.hi, Last.out.d)
    /\ Last.out.gradient[1] # Last.out.gradient[2]

\* apart from the exchange of x and y in 3D, every component is its axis partial
C2_ExceptSwap3D ==
    (Called /\ HasGradient(Last) /\ AllOne(Last.out.h)) =>
        \A k \in 1..Last.dim :
            Last.out.gradient[k] =
                AxisPartial(Last.dim,
                            IF Last.dim = 3 /\ k \in {1, 2} THEN 3 - k ELSE k,
                            Last.seed, Last.out.lo, Last.out.hi, Last.out.d)

\* the value pnoise returns in dimensionality D
PnoiseValue(D, s, c, p) ==
    CASE D = 1 -> pnoise_float(s, c[1], p[1]).ret
      [] D = 2 -> pnoise_vec2(s, c, p[1], p[2]).ret
      [] D = 3 -> pnoise_vec3(s, c, p[1], p[2], p[3]).ret
      [] OTHER -> pnoise_vec4(s, c, p[1], p[2], p[3], p[4]).ret

\* the coordinate c moved by n along axis k
Shifted(c, k, n) == [c EXCEPT ![k] = RAdd[c[k], IntToR(n)]]

\* C3: pnoise is exactly periodic: with every period >= 1, moving the
\* coordinate along any axis by any whole multiple of that axis's period,
\* forwards or backwards (also where the floor is negative), gives the same
\* value.
C3_PnoisePeriodic ==
    (Called /\ Last.op = "pnoise" /\ Ran(Last)
        /\ \A k \in 1..Last.dim : Last.period[k] >= 1) =>
        \A k \in 1..Last.dim : \A j \in -MaxShift..MaxShift :
            PnoiseValue(Last.dim, Last.seed,
                        Shifted(Last.coord, k, j * Last.period[k]), Last.period)
                = Last.out.ret

\* a 2D call at a point of negative floor, periods 2 and 3, whose value is not
\* zero and differs from the value of the non-periodic noise there
C3_Witness ==
    /\ Called /\ Last.op = "pnoise" /\ Ran(Last) /\ Last.dim = 2
    /\ Last.period = <<2, 3>>
    /\ Floor(Last.coord[1]) < 0
    /\ Last.out.ret # Zero
    /\ Last.out.ret # noise_vec2(Last.seed, Last.coord).ret
    /\ PnoiseValue(2, Last.seed, Shifted(Last.coord, 1, -2), Last.period) = Last.out.ret

\* what call e adds to the coordinate accumulator: gradient * adj_ret for
\* adj_noise and adj_pnoise, nothing for any other call
Contribution(e) ==
    IF HasGradient(e)
    THEN [k \in 1..e.dim |-> RMul[e.out.gradient[k], e.adj_ret]]
    ELSE ZeroVec(e.dim)

VecAdd(a, b) == [k \in DOMAIN a |-> RAdd[a[k], b[k]]]

\* the contributions of the calls 1 .. n, added first to last
RECURSIVE SumForward(_)
SumForward(n) == IF n = 0 THEN ZeroVec(dim) ELSE VecAdd(SumForward(n - 1), Contribution(hist[n]))

\* the contributions of the calls n .. Len(hist), added last to first
RECURSIVE SumBackward(_)
SumBackward(n) ==
    IF n > Len(hist) THEN ZeroVec(dim) ELSE VecAdd(SumBackward(n + 1), Contribution(hist[n]))

\* C4: over any sequence of calls the accumulation is strictly additive: the
\* coordinate accumulator holds its initial value plus the sum of the
\* contributions gradient * adj_ret of the adj_noise and adj_pnoise calls made,
\* whatever the order in which the contributions are added.
C4_AccumulationAdditive ==
    Called =>
        /\ AdjCoord(mem, dim) = VecAdd(AdjCoord(hist[1].pre, dim), SumForward(Len(hist)))
        /\ AdjCoord(mem, dim) = VecAdd(AdjCoord(hist[1].pre, dim), SumBackward(1))

\* three calls in 3D, among them adj_noise and adj_pnoise with different
\* non-zero contributions, that moved the accumulator
C4_Witness ==
    /\ Len(hist) = 3 /\ dim = 3
    /\ \E i, j \in 1..3 :
         /\ hist[i].op = "adj_noise" /\ hist[j].op = "adj_pnoise"
         /\ Contribution(hist[i]) # ZeroVec(3)
         /\ Contribution(hist[j]) # ZeroVec(3)
         /\ Contribution(hist[i]) # Contribution(hist[j])
    /\ mem.adj_xyz # hist[1].pre.adj_xyz

\* the field of the storage that holds the coordinate accumulator of dimensionality D
CoordField(D) ==
    CASE D = 1 -> "adj_x" [] D = 2 -> "adj_xy" [] D = 3 -> "adj_xyz" [] OTHER -> "adj_xyzt"

PeriodFields == {"adj_px", "adj_py", "adj_pz", "adj_pt"}

\* C5: every adjoint call (adj_noise, adj_pnoise, adj_curlnoise) leaves
\* adj_seed unchanged and adj_pnoise leaves adj_px, adj_py, adj_pz, adj_pt
\* unchanged: of the caller's storage only the coordinate accumulator of the
\* call may change.
C5_OnlyCoordinateAccumulatorChanges ==
    (Called /\ IsAdjoint(Last)) =>
        \A f \in DOMAIN mem : f # CoordField(Last.dim) => mem[f] = Last.pre[f]

\* a 2D adj_pnoise call on used storage that changed the coordinate accumulator
\* and left the seed adjoint and the period adjoints as they were
C5_Witness ==
    /\ Called /\ Last.op = "adj_pnoise" /\ Ran(Last) /\ Last.dim = 2
    /\ Last.pre.adj_seed = U32(7) /\ mem.adj_seed = U32(7)
    /\ Last.pre.adj_px = 3 /\ mem.adj_px = 3 /\ mem.adj_py = 5
    /\ mem.adj_xy # Last.pre.adj_xy

\* C6: the three adj_curlnoise functions accumulate nothing: after the call
\* the coordinate accumulator and adj_seed, as the rest of the caller's storage,
\* are what they were before it.
C6_AdjCurlnoiseNoAccumulation ==
    (Called /\ Last.op = "adj_curlnoise") => mem = Last.pre

\* a 3D adj_curlnoise call with a non-zero adj_ret at a point where the
\* gradient is not zero, on used storage
C6_Witness ==
    /\ Called /\ Last.op = "adj_curlnoise" /\ Last.dim = 3
    /\ Last.adj_ret # ZeroVec(3)
    /\ GradientAt(3, Last.seed, Last.coord) # ZeroVec(3)
    /\ Last.pre.adj_xyz # ZeroVec(3)
    /\ mem.adj_xyz = Last.pre.adj_xyz /\ mem.adj_seed = Last.pre.adj_seed

\* C7: a call of pnoise or adj_pnoise with some period <= 0 is rejected: it
\* returns no value and leaves the caller's storage unchanged.
C7_NonPositivePeriodRejected ==
    (Called /\ Last.op \in {"pnoise", "adj_pnoise"}
        /\ \E k \in 1..Last.dim : Last.period[k] <= 0) =>
        /\ ~Ran(Last)
        /\ mem = Last.pre

\* adj_pnoise with period -1 ran to completion and changed the accumulator
C7_Witness ==
    /\ Called /\ Last.op = "adj_pnoise" /\ Last.dim = 1
    /\ Last.period = <<-1>>
    /\ Ran(Last)
    /\ mem.adj_x # Last.pre.adj_x

\* the caller's storage right after call i
After(i) == IF i = Len(hist) THEN mem ELSE hist[i + 1].pre

CurlOffset1 == U32(10019689)
CurlOffset2 == U32(13112221)

IsCurl3(e) == e.op = "curlnoise" /\ e.dim \in {3, 4}

\* the three gradient fields of e were evaluated at the seeds sd, each at the
\* corners, offsets and selectors of the coordinate
FieldsAt(e, sd) ==
    /\ e.out.seeds = sd
    /\ \A i \in 1..3 : e.out.grads[i] = GradientAt(e.dim, sd[i], e.coord)

\* C9 as stated: in curlnoise for 3D and 4D input the three gradient fields are
\* evaluated with the seeds s, rand_init(s, 10019689) and
\* rand_init(s, 13112221), s being the caller's seed, all at the same corners,
\* offsets and selectors.
C9_SeedsFromCallerSeed ==
    (Called /\ IsCurl3(Last)) =>
        FieldsAt(Last, <<Last.seed, rand_init(Last.seed, CurlOffset1),
                         rand_init(Last.seed, CurlOffset2)>>)

\* C9 as amended: the three gradient fields are evaluated with the seeds s,
\* s1 = rand_init(s, 10019689) and rand_init(s1, 13112221): the third seed is
\* derived from the second one, not from the caller's.  All three are evaluated
\* at the same corners, offsets and selectors.
C9_SeedsChained ==
    (Called /\ IsCurl3(Last)) =>
        FieldsAt(Last, <<Last.seed, rand_init(Last.seed, CurlOffset1),
                         rand_init(rand_init(Last.seed, CurlOffset1), CurlOffset2)>>)

\* a 3D curlnoise call whose three seeds and three fields are pairwise
\* different, the third seed not being rand_init(s, 13112221)
C9_Witness ==
    /\ Called /\ Last.op = "curlnoise" /\ Last.dim = 3
    /\ Last.out.seeds[3] = rand_init(Last.out.seeds[2], CurlOffset2)
    /\ Last.out.seeds[3] # rand_init(Last.seed, CurlOffset2)
    /\ Cardinality({Last.out.seeds[i] : i \in 1..3}) = 3
    /\ Cardinality({Last.out.grads[i] : i \in 1..3}) = 3

\* the seeds of the three fields of curlnoise for the caller's seed s
CurlSeeds(s) ==
    <<s, rand_init(s, CurlOffset1), rand_init(rand_init(s, CurlOffset1), CurlOffset2)>>

\* (g3.y - g2.z, g1.z - g3.x, g2.x - g1.y)
Curl3(g1, g2, g3) == <<RSub[g3[2], g2[3]], RSub[g1[3], g3[1]], RSub[g2[1], g1[2]]>>

\* C10: curlnoise for 3D and 4D input returns
\* (g3.y - g2.z, g1.z - g3.x, g2.x - g1.y), g1, g2, g3 being the three gradient
\* fields; for 4D input only the x, y, z components of the gradients enter,
\* the t components never do.
C10_CurlOfThreeFields ==
    (Called /\ IsCurl3(Last)) =>
        /\ Len(Last.out.ret) = 3
        /\ Last.out.ret = Curl3(GradientAt(Last.dim, CurlSeeds(Last.seed)[1], Last.coord),
                                GradientAt(Last.dim, CurlSeeds(Last.seed)[2], Last.coord),
                                GradientAt(Last.dim, CurlSeeds(Last.seed)[3], Last.coord))

\* a 4D curlnoise call with a non-zero result, the three fields having
\* non-zero t components that differ from the components used
C10_Witness ==
    /\ Called /\ Last.op = "curlnoise" /\ Last.dim = 4
    /\ \A k \in 1..3 : Last.out.ret[k] # Zero
    /\ \A i \in 1..3 : Last.out.grads[i][4] # Zero
    /\ Last.out.grads[3][4] # Last.out.grads[3][2]
    /\ Last.out.grads[2][4] # Last.out.grads[2][3]
    /\ Last.out.ret = Curl3(Last.out.grads[1], Last.out.grads[2], Last.out.grads[3])

\* C11: curlnoise for 2D input returns (-g.y, g.x), g being the result of one
\* noise_2d_gradient call made with the caller's seed at the corners floor and
\* floor + 1, the fractional offsets and the selectors of the coordinate.
C11_Curl2DOfOneField ==
    (Called /\ Last.op = "curlnoise" /\ Last.dim = 2) =>
        /\ Last.out.seeds = <<Last.seed>>
        /\ Last.out.grads = <<GradientAt(2, Last.seed, Last.coord)>>
        /\ Last.out.ret = <<RNeg(GradientAt(2, Last.seed, Last.coord)[2]),
                            GradientAt(2, Last.seed, Last.coord)[1]>>

\* a 2D curlnoise call off the lattice whose field has two non-zero components
\* of different size, so that neither the sign nor the order can be changed
C11_Witness ==
    /\ Called /\ Last.op = "curlnoise" /\ Last.dim = 2
    /\ AllOne(Last.out.h)
    /\ Last.out.grads[1][1] # Zero /\ Last.out.grads[1][2] # Zero
    /\ Last.out.grads[1][1] # Last.out.grads[1][2]
    /\ Last.out.grads[1][1] # RNeg(Last.out.grads[1][2])
    /\ Last.out.ret = <<RNeg(Last.out.grads[1][2]), Last.out.grads[1][1]>>

\* the value evaluator of dimensionality D
ValueEvaluator(D, s, lo, hi, d) ==
    CASE D = 1 -> noise_1d(s, lo[1], hi[1], d[1])
      [] D = 2 -> noise_2d(s, lo[1], lo[2], hi[1], hi[2], d[1], d[2])
      [] D = 3 -> noise_3d(s, lo[1], lo[2], lo[3], hi[1], hi[2], hi[3], d[1], d[2], d[3])
      [] OTHER -> noise_4d(s, lo[1], lo[2], lo[3], lo[4], hi[1], hi[2], hi[3], hi[4],
                           d[1], d[2], d[3], d[4])

IsValueRun(e) == e.op \in {"noise_1d", "noise_2d", "noise_3d", "noise_4d"}
IsGradientRun(e) ==
    e.op \in {"noise_1d_gradient", "noise_2d_gradient", "noise_3d_gradient", "noise_4d_gradient"}

\* the corner indices c moved one cell up along axis k
NextCell(c, k) == [c EXCEPT ![k] = c[k] + 1]

\* C12: noise is continuous across lattice boundaries: in every
\* dimensionality, for every seed and axis, the value evaluator applied to a
\* cell with offset 1 on the axis equals the value evaluator applied to the
\* next cell along the axis with offset 0 there, the cells and offsets of the
\* other axes being equal.
C12_ContinuousAcrossCells ==
    (Called /\ IsValueRun(Last)) =>
        \A k \in 1..dim :
            mem.d[k] = One =>
                Last.out = ValueEvaluator(dim, mem.seed, NextCell(mem.lo, k),
                                          NextCell(mem.hi, k), [mem.d EXCEPT ![k] = Zero])

\* noise_3d applied at the upper end of a cell along y, in the middle along x
\* and z, with a value that is not zero and differs from the value at the
\* lower end of the same cell
C12_Witness ==
    /\ Called /\ Last.op = "noise_3d"
    /\ mem.d = <<R(1, 2), One, R(1, 2)>>
    /\ Last.out # Zero
    /\ Last.out # ValueEvaluator(3, mem.seed, mem.lo, mem.hi, <<R(1, 2), Zero, R(1, 2)>>)
    /\ Last.out = ValueEvaluator(3, mem.seed, NextCell(mem.lo, 2), NextCell(mem.hi, 2),
                                 <<R(1, 2), Zero, R(1, 2)>>)

\* blend(a0, a1, t) = a0 + (a1 - a0) * fade(t), with the fade polynomial
BlendRef(a0, a1, t) == RAdd[a0, RMul[RSub[a1, a0], Fade(t)]]

\* the two corner products of noise(seed = 0, x = 0.5)
Half == R(1, 2)
CornerLow13 == RMul[random_gradient_1d(U32(0), 0), Half]
CornerHigh13 == RMul[random_gradient_1d(U32(0), 1), RNeg(Half)]

IsNoiseAtHalf(e) == e.op = "noise" /\ e.dim = 1 /\ e.seed = U32(0) /\ e.coord = <<Half>>

\* C13: noise(seed = 0, x = 0.5) equals
\* blend(dot(gradient_1d(0, 0), 0.5), dot(gradient_1d(0, 1), -0.5), fade(0.5)),
\* blend(a0, a1, t) being a0 + (a1 - a0) * fade(t).  As fade(0.5) = 0.5, the
\* blend parameter may be read as fade(0.5) or as 0.5: both are stated.
C13_NoiseAtHalf ==
    (Called /\ IsNoiseAtHalf(Last)) =>
        /\ Last.out.ret = BlendRef(CornerLow13, CornerHigh13, Fade(Half))
        /\ Last.out.ret = BlendRef(CornerLow13, CornerHigh13, Half)

\* the call noise(0, 0.5) was made; its two lattice gradients are not zero and
\* differ, and its value is none of the two corner products
C13_Witness ==
    /\ Called /\ IsNoiseAtHalf(Last)
    /\ random_gradient_1d(U32(0), 0) # Zero
    /\ random_gradient_1d(U32(0), 1) # Zero
    /\ random_gradient_1d(U32(0), 0) # random_gradient_1d(U32(0), 1)
    /\ Last.out.ret # CornerLow13 /\ Last.out.ret # CornerHigh13
    /\ Last.out.lo = <<0>> /\ Last.out.hi = <<1>>

IsPeriodic(e) == e.op \in {"pnoise", "adj_pnoise"}
PositivePeriods(e) == \A k \in 1..e.dim : e.period[k] >= 1

\* C14: in pnoise and adj_pnoise, on every axis, for every coordinate
\* (negative ones included) and every period p >= 1, the low corner index is
\* floor(coord) mod p, the high corner index is (low + 1) mod p, and both lie
\* in 0 .. p - 1.
C14_WrappedCorners ==
    (Called /\ IsPeriodic(Last) /\ Ran(Last) /\ PositivePeriods(Last)) =>
        \A k \in 1..Last.dim :
            /\ Last.out.lo[k] = Floor(Last.coord[k]) % Last.period[k]
            /\ Last.out.hi[k] = (Last.out.lo[k] + 1) % Last.period[k]
            /\ Last.out.lo[k] \in 0..(Last.period[k] - 1)
            /\ Last.out.hi[k] \in 0..(Last.period[k] - 1)

\* a 3D adj_pnoise call with period 2 at a point whose floors are -1, 0, 0:
\* the low corners are 1, 0, 0 and the high corner of the first axis wraps to 0
C14_Witness ==
    /\ Called /\ Last.op = "adj_pnoise" /\ Ran(Last) /\ Last.dim = 3
    /\ Last.period = <<2, 2, 2>>
    /\ Floor(Last.coord[1]) = -1 /\ Floor(Last.coord[2]) = 0 /\ Floor(Last.coord[3]) = 0
    /\ Last.out.lo = <<1, 0, 0>>
    /\ Last.out.hi = <<0, 1, 1>>

\* noise_D with its locals, and noise_D_gradient with its locals
ValueLocals(D, s, lo, hi, d) ==
    CASE D = 1 -> noise_1d_locals(s, lo[1], hi[1], d[1])
      [] D = 2 -> noise_2d_locals(s, lo[1], lo[2], hi[1], hi[2], d[1], d[2])
      [] D = 3 -> noise_3d_locals(s, lo[1], lo[2], lo[3], hi[1], hi[2], hi[3], d[1], d[2], d[3])
      [] OTHER -> noise_4d_locals(s, lo[1], lo[2], lo[3], lo[4], hi[1], hi[2], hi[3], hi[4],
                                  d[1], d[2], d[3], d[4])

GradientLocals(D, s, lo, hi, d, h) ==
    CASE D = 1 -> noise_1d_gradient_locals(s, lo[1], hi[1], d[1], h[1])
      [] D = 2 -> noise_2d_gradient_locals(s, lo[1], lo[2], hi[1], hi[2], d[1], d[2], h[1], h[2])
      [] D = 3 -> noise_3d_gradient_locals(s, lo[1], lo[2], lo[3], hi[1], hi[2], hi[3],
                                           d[1], d[2], d[3], h[1], h[2], h[3])
      [] OTHER -> noise_4d_gradient_locals(s, lo[1], lo[2], lo[3], lo[4],
                                           hi[1], hi[2], hi[3], hi[4],
                                           d[1], d[2], d[3], d[4], h[1], h[2], h[3], h[4])

Range(s) == {s[i] : i \in DOMAIN s}

\* the evaluator result as a vector (the 1D gradient is a scalar)
AsVector(D, g) == IF D = 1 THEN <<g>> ELSE g

\* V, the locals of noise_D, and G, the locals of noise_D_gradient, agree on
\* the value path: the same corner products at the same indices and offsets,
\* the same value locals with the same values, and every interpolate_gradient
\* call of G is made on the endpoints and the blend parameter of the
\* interpolate call of V that defines the same value local, D of them for each
SameValuePath(D, V, G) ==
    /\ Range(G.corners) = Range(V.corners)
    /\ Len(G.corners) = 2^D /\ Len(V.corners) = 2^D
    /\ Range(G.values) = Range(V.values)
    /\ Len(G.values) = Len(V.values)
    /\ Range(G.blends) = Range(V.blends)
    /\ Len(G.blends) = D * Len(V.blends)
    /\ \A b \in Range(V.blends) :
           Cardinality({i \in DOMAIN G.blends : G.blends[i] = b}) = D

\* C15: in every dimensionality the value path inside noise_D_gradient is the
\* computation of noise_D: the 2^D corner products (same corner indices, same
\* offsets) and every blend intermediate of noise_D_gradient equal those of
\* noise_D for the same arguments, and each interpolate_gradient call is made
\* on the endpoint pair and blend parameter of the matching interpolate call,
\* in the same nesting.  The locals are those of the functions applied: the
\* returned values are the results of noise_D_gradient and noise_D.
C15_GradientFollowsValuePath ==
    (Called /\ IsGradientRun(Last)) =>
        /\ AsVector(dim, GradientLocals(dim, mem.seed, mem.lo, mem.hi, mem.d, mem.h).ret)
               = Last.out
        /\ ValueLocals(dim, mem.seed, mem.lo, mem.hi, mem.d).ret
               = ValueEvaluator(dim, mem.seed, mem.lo, mem.hi, mem.d)
        /\ SameValuePath(dim, ValueLocals(dim, mem.seed, mem.lo, mem.hi, mem.d),
                         GradientLocals(dim, mem.seed, mem.lo, mem.hi, mem.d, mem.h))

\* noise_4d_gradient applied inside a cell: 16 corner products, 30 value
\* locals, not all equal, and 60 interpolate_gradient calls
C15_Witness ==
    /\ Called /\ Last.op = "noise_4d_gradient"
    /\ \A k \in 1..4 : mem.d[k] = R(1, 2) /\ mem.h[k] = One
    /\ Len(GradientLocals(4, mem.seed, mem.lo, mem.hi, mem.d, mem.h).corners) = 16
    /\ Len(GradientLocals(4, mem.seed, mem.lo, mem.hi, mem.d, mem.h).values) = 30
    /\ Len(GradientLocals(4, mem.seed, mem.lo, mem.hi, mem.d, mem.h).blends) = 60
    /\ Cardinality({v[2] : v \in Range(ValueLocals(4, mem.seed, mem.lo, mem.hi, mem.d).values)}) > 8
    /\ Last.out # ZeroVec(4)

\* the corner of a cell chosen by the index vector i: on every axis the low
\* index with offset f or the high index with offset f - 1
IsCornerOf(c, lo, hi, d) ==
    \A k \in DOMAIN lo :
        \/ c.index[k] = lo[k] /\ c.offset[k] = d[k]
        \/ c.index[k] = hi[k] /\ c.offset[k] = RSub[d[k], One]

\* C16: for D = 1 .. 4, noise_D equals the reference evaluator: each of the
\* 2^D corners (low or high index on each axis) contributes the product of its
\* lattice gradient with the offset vector that has f_k on an axis where the
\* corner is low and f_k - 1 where it is high, every corner is used once, and
\* the contributions are blended with x innermost, then y, then z, then t.
C16_ValueIsReference ==
    (Called /\ IsValueRun(Last)) =>
        /\ Last.out = ValueDual(dim, 1, mem.seed, mem.lo, mem.hi, mem.d)[1]
        /\ Len(ValueLocals(dim, mem.seed, mem.lo, mem.hi, mem.d).corners) = 2^dim
        /\ Cardinality({c.index :
               c \in Range(ValueLocals(dim, mem.seed, mem.lo, mem.hi, mem.d).corners)}) = 2^dim
        /\ \A c \in Range(ValueLocals(dim, mem.seed, mem.lo, mem.hi, mem.d).corners) :
               IsCornerOf(c, mem.lo, mem.hi, mem.d)
        /\ ValueLocals(dim, mem.seed, mem.lo, mem.hi, mem.d).ret = Last.out

\* noise_4d applied in the middle of a cell on
\* three axes and its upper end on one: a non-zero value that the reference
\* evaluator gives too
C16_Witness ==
    /\ Called /\ Last.op = "noise_4d"
    /\ mem.d = <<R(1, 2), R(1, 2), One, R(1, 2)>>
    /\ Last.out # Zero
    /\ Last.out = ValueDual(4, 1, mem.seed, mem.lo, mem.hi, mem.d)[1]

EvaluatesGradient(e) == e.op \in {"adj_noise", "adj_pnoise", "curlnoise"} /\ Ran(e)

RECURSIVE Horner(_, _, _)
Horner(c, i, t) ==
    IF i > Len(c) THEN Zero ELSE RAdd[IntToR(c[i]), RMul[t, Horner(c, i + 1, t)]]
PolyAt(c, t) == Horner(c, 1, t)
\* the coefficients of the derivative
Derived(c) == [i \in 1..(Len(c) - 1) |-> i * c[i + 1]]

\* the fade polynomial 6t^5 - 15t^4 + 10t^3
FadeCoefficients == <<0, 0, 0, 10, -15, 6>>

\* C18: interpolate(a0, a1, t) is a0 + (a1 - a0) * fade(t);
\* interpolate_gradient(a0, a1, t, da0, da1, dt) is
\* fade(t) * (da1 - da0) + (a1 - a0) * fade'(t) * dt + da0; and fade' =
\* smootherstep_gradient is 30t^4 - 60t^3 + 30t^2, the derivative of the fade
\* polynomial 6t^5 - 15t^4 + 10t^3.
C18_BlendAndBlendGradient ==
    /\ Derived(FadeCoefficients) = <<0, 0, 30, -60, 30>>
    /\ (Called /\ Last.op = "interpolate") =>
           Last.out = RAdd[mem.a0, RMul[RSub[mem.a1, mem.a0], PolyAt(FadeCoefficients, mem.t)]]
    /\ (Called /\ Last.op = "interpolate_gradient") =>
           Last.out = RAdd[RAdd[RMul[PolyAt(FadeCoefficients, mem.t), RSub[mem.d_a1, mem.d_a0]],
                                RMul[RMul[RSub[mem.a1, mem.a0],
                                          PolyAt(Derived(FadeCoefficients), mem.t)], mem.d_t]],
                           mem.d_a0]
    /\ (Called /\ Last.op = "smootherstep_gradient") =>
           /\ Last.out = PolyAt(Derived(FadeCoefficients), mem.t)
           /\ Last.out = FadeSlope(mem.t)

\* interpolate_gradient applied inside (0, 1) to different endpoints with
\* different partials and d_t = 1: all three terms of the formula are non-zero
C18_Witness ==
    /\ Called /\ Last.op = "interpolate_gradient"
    /\ mem.t = R(3, 8) /\ mem.d_t = One
    /\ mem.a0 # mem.a1 /\ mem.d_a0 # mem.d_a1 /\ mem.d_a0 # Zero
    /\ PolyAt(Derived(FadeCoefficients), mem.t) # Zero
    /\ Last.out # mem.d_a0
    /\ Last.out # RAdd[RMul[PolyAt(FadeCoefficients, mem.t), RSub[mem.d_a1, mem.d_a0]], mem.d_a0]

RLe(a, b) == ~RLt(b, a)
InUnit(t) == RLe(Zero, t) /\ RLe(t, One)

\* C19: smootherstep computes 6t^5 - 15t^4 + 10t^3, with fade(0) = 0 and
\* fade(1) = 1; it is monotonically non-decreasing on [0, 1] (fade(s) <= fade(t)
\* whenever 0 <= s <= t <= 1); and its derivative smootherstep_gradient is 0 at
\* t = 0 and at t = 1.
C19_FadeCurve ==
    /\ (Called /\ Last.op = "smootherstep") =>
           /\ Last.out = PolyAt(FadeCoefficients, mem.t)
           /\ mem.t = Zero => Last.out = Zero
           /\ mem.t = One => Last.out = One
           /\ InUnit(mem.t) =>
                  \A s \in Ts : (RLe(Zero, s) /\ RLe(s, mem.t)) => RLe(smootherstep(s), Last.out)
    /\ (Called /\ Last.op = "smootherstep_gradient") =>
           /\ mem.t \in {Zero, One} => Last.out = Zero
           /\ InUnit(mem.t) => RLe(Zero, Last.out)

\* smootherstep applied at 5/8: a value strictly between fade(1/2) = 1/2 and 1
C19_Witness ==
    /\ Called /\ Last.op = "smootherstep"
    /\ mem.t = R(5, 8)
    /\ smootherstep(R(1, 2)) = R(1, 2)
    /\ RLt(R(1, 2), Last.out) /\ RLt(Last.out, One)
    /\ RLt(smootherstep(R(1, 8)), smootherstep(R(2, 8)))

\* the component of a 3D result that carries the partials of axis k (noise.h
\* lines 302-303 return the y chain as component x and the x chain as component y)
CarrierOf(D, k) == IF D = 3 /\ k \in {1, 2} THEN 3 - k ELSE k

\* C20: in every dimensionality, when the heaviside selector of axis k is 0,
\* component k of the result of noise_D_gradient is exactly 0, so adj_noise and
\* adj_pnoise leave component k of the coordinate accumulator unchanged,
\* whatever adj_ret and the offsets of the other axes are.
C20_ZeroSelectorZeroComponent ==
    (Called /\ HasGradient(Last)) =>
        \A k \in 1..Last.dim :
            Last.out.h[k] = Zero =>
                /\ Last.out.gradient[k] = Zero
                /\ AdjCoord(mem, Last.dim)[k] = AdjCoord(Last.pre, Last.dim)[k]

\* a 3D adjoint call on the lattice plane of x and off that of y: component x of
\* the result is not 0 and the x accumulator has changed, while component y,
\* whose selector is 1, is 0 and the y accumulator is as before
C20_Witness ==
    /\ Called /\ HasGradient(Last) /\ Last.dim = 3
    /\ Last.out.h[1] = Zero /\ Last.out.h[2] = One
    /\ Last.out.gradient[1] # Zero /\ Last.out.gradient[2] = Zero
    /\ mem.adj_xyz[1] # Last.pre.adj_xyz[1]
    /\ mem.adj_xyz[2] = Last.pre.adj_xyz[2]

\* apart from the exchange of x and y in 3D: a selector of 0 makes the component
\* that carries the partials of its axis 0 and leaves that accumulator component
C20_ExceptSwap3D ==
    (Called /\ HasGradient(Last)) =>
        \A k \in 1..Last.dim :
            Last.out.h[k] = Zero =>
                /\ Last.out.gradient[CarrierOf(Last.dim, k)] = Zero
                /\ AdjCoord(mem, Last.dim)[CarrierOf(Last.dim, k)] =
                       AdjCoord(Last.pre, Last.dim)[CarrierOf(Last.dim, k)]

IsValueCall(e) == e.op \in {"noise", "pnoise"} /\ Ran(e)
OnLattice(c) == \A k \in DOMAIN c : Frac(c[k]) = Zero

\* C21: in every dimensionality and for every seed, noise at a point whose
\* coordinates are all integers (every fractional offset 0) is exactly 0,
\* whatever the lattice gradients are; so is pnoise with any periods >= 1.
C21_ZeroOnLattice ==
    (Called /\ IsValueCall(Last) /\ OnLattice(Last.coord)
        /\ (Last.op = "pnoise" => PositivePeriods(Last))) =>
        Last.out.ret = Zero

\* a 3D pnoise call with period 2 at an integer point of negative floor: the
\* value is 0 although the lattice gradients of the low and of the high corner
\* are different vectors, neither of them zero
C21_Witness ==
    /\ Called /\ Last.op = "pnoise" /\ Ran(Last) /\ Last.dim = 3
    /\ Last.period = <<2, 2, 2>>
    /\ OnLattice(Last.coord) /\ Floor(Last.coord[1]) < 0
    /\ Last.out.d = <<Zero, Zero, Zero>>
    /\ LatticeGradient(3, Last.seed, Last.out.lo) # ZeroVec(3)
    /\ LatticeGradient(3, Last.seed, Last.out.hi) # ZeroVec(3)
    /\ LatticeGradient(3, Last.seed, Last.out.lo) # LatticeGradient(3, Last.seed, Last.out.hi)
    /\ Last.out.ret = Zero

\* the value noise returns in dimensionality D
NoiseValue(D, s, c) ==
    CASE D = 1 -> noise_float(s, c[1]).ret
      [] D = 2 -> noise_vec2(s, c).ret
      [] D = 3 -> noise_vec3(s, c).ret
      [] OTHER -> noise_vec4(s, c).ret

\* the coordinate accumulator adj_noise leaves when called on the storage m
AdjNoiseLeaves(D, s, c, m, a) ==
    CASE D = 1 -> <<adj_noise_float(s, c[1], m.adj_seed, m.adj_x, a).adj_x>>
      [] D = 2 -> adj_noise_vec2(s, c, m.adj_seed, m.adj_xy, a).adj_xy
      [] D = 3 -> adj_noise_vec3(s, c, m.adj_seed, m.adj_xyz, a).adj_xyz
      [] OTHER -> adj_noise_vec4(s, c, m.adj_seed, m.adj_xyzt, a).adj_xyzt

\* both corners of the cell of the coordinate lie in the first period of every axis
InsideFirstPeriod(e) ==
    \A k \in 1..e.dim : 0 <= Floor(e.coord[k]) /\ Floor(e.coord[k]) + 1 < e.period[k]

VecSub(a, b) == [k \in DOMAIN a |-> RSub[a[k], b[k]]]

\* C22: in every dimensionality, if on every axis 0 <= floor(coord) and
\* floor(coord) + 1 < period, then pnoise(seed, coord, periods) is
\* noise(seed, coord), and adj_pnoise adds to the coordinate accumulator what
\* adj_noise adds for the same adj_ret.
C22_PnoiseIsNoiseInsideFirstPeriod ==
    (Called /\ IsPeriodic(Last) /\ Ran(Last) /\ InsideFirstPeriod(Last)) =>
        /\ Last.op = "pnoise" => Last.out.ret = NoiseValue(Last.dim, Last.seed, Last.coord)
        /\ Last.op = "adj_pnoise" =>
               VecSub(AdjCoord(mem, Last.dim), AdjCoord(Last.pre, Last.dim)) =
                   VecSub(AdjNoiseLeaves(Last.dim, Last.seed, Last.coord, Last.pre, Last.adj_ret),
                          AdjCoord(Last.pre, Last.dim))

\* a 3D adj_pnoise call with period 2 in the middle of the cell at the origin,
\* on an accumulator that held values: every component received a non-zero
\* amount; one period to the left, pnoise and noise differ
C22_Witness ==
    /\ Called /\ Last.op = "adj_pnoise" /\ Ran(Last) /\ Last.dim = 3
    /\ Last.period = <<2, 2, 2>> /\ Last.coord = Uniform(3, 1)
    /\ InsideFirstPeriod(Last)
    /\ Last.pre.adj_xyz # ZeroVec(3)
    /\ \A k \in 1..3 : mem.adj_xyz[k] # Last.pre.adj_xyz[k]
    /\ PnoiseValue(3, Last.seed, Uniform(3, -1), Last.period) #
           NoiseValue(3, Last.seed, Uniform(3, -1))

\* 32-bit words as sequences of 32 bits, the lowest first, with the arithmetic
\* the state formula needs, bit by bit
RECURSIVE BitsOfNat(_, _)
BitsOfNat(n, len) == IF len = 0 THEN <<>> ELSE <<n % 2>> \o BitsOfNat(n \div 2, len - 1)
WordOfNat(n) == BitsOfNat(n, 32)
WordOfLimbs(s) == BitsOfNat(s[2], 16) \o BitsOfNat(s[1], 16)
RECURSIVE BitsValue(_, _, _)
BitsValue(w, from, n) == IF n = 0 THEN 0 ELSE w[from] + 2 * BitsValue(w, from + 1, n - 1)
LimbsOfWord(w) == <<BitsValue(w, 17, 16), BitsValue(w, 1, 16)>>
\* a + b mod 2^32: ripple-carry addition, the carry out of the last bit dropped
RECURSIVE AddFrom(_, _, _, _)
AddFrom(a, b, i, carry) ==
    IF i > 32 THEN <<>>
    ELSE <<(a[i] + b[i] + carry) % 2>> \o AddFrom(a, b, i + 1, (a[i] + b[i] + carry) \div 2)
WordAdd(a, b) == AddFrom(a, b, 1, 0)
RECURSIVE XorFrom(_, _, _)
XorFrom(a, b, i) == IF i > 32 THEN <<>> ELSE <<(a[i] + b[i]) % 2>> \o XorFrom(a, b, i + 1)
WordXor(a, b) == XorFrom(a, b, 1)
\* 2^32 - a mod 2^32: the complement plus one
WordNot(a) == WordXor(a, [i \in 1..32 |-> 1])
WordNeg(a) == WordAdd(WordNot(a), WordOfNat(1))
\* i * p mod 2^32 for an int i, a negative i wrapping: repeated addition
RECURSIVE WordTimes(_, _)
WordTimes(i, p) ==
    IF i = 0 THEN WordOfNat(0)
    ELSE IF i < 0 THEN WordNeg(WordTimes(-i, p))
    ELSE WordAdd(WordTimes(i - 1, p), p)

\* (seed + ((ix*73856093) XOR (iy*19349663) XOR (iz*53471161) XOR (it*10000019)))
\* mod 2^32, the axes beyond the dimensionality absent
Primes == <<p1, p2, p3, p4>>
RECURSIVE IndexWord(_, _)
IndexWord(n, i) ==
    IF n = 1 THEN WordTimes(i[1], WordOfNat(Primes[1]))
    ELSE WordXor(IndexWord(n - 1, i), WordTimes(i[n], WordOfNat(Primes[n])))
StateOf(D, s, i) == LimbsOfWord(WordAdd(WordOfLimbs(s), IndexWord(D, i)))

\* the gradient drawn from a PRNG state in dimensionality D
DrawnAt(D, state) ==
    CASE D = 1 -> <<randf_pm1(state)>>
      [] D = 2 -> UnitVec2(state)
      [] D = 3 -> UnitVec3(state)
      [] OTHER -> UnitVec4(state)

\* the 2^D corners of the cell between lo and hi
CellCorners(D, lo, hi) == {[k \in 1..D |-> IF c[k] = 0 THEN lo[k] ELSE hi[k]] : c \in [1..D -> {0, 1}]}

\* the corner whose indices are all 0: its state is the seed
Origin(D) == [k \in 1..D |-> 0]

ReadsLattice(e) == e.op \in {"noise", "pnoise", "adj_noise", "adj_pnoise"} /\ Ran(e)

\* the seed s + 73856093 mod 2^32, and the seeds the shift is stated for: the
\* caller's and the largest one, whose sum wraps
SeedShifted(s) == U32Add(s, U32(p1))
ShiftSeeds(s) == {s, <<W16 - 1, W16 - 1>>}

\* C23: the lattice gradient depends on (seed, corner indices) only through
\* the state (seed + (ix*73856093 XOR iy*19349663 XOR iz*53471161 XOR
\* it*10000019)) mod 2^32, products mod 2^32 and negative indices wrapping: it
\* is the draw at that state, so two pairs with one state have one gradient
\* (the pair made of that state as seed and the corner 0 has the same one).
\* In 1D random_gradient_1d(seed, ix) = random_gradient_1d(seed + 73856093 mod
\* 2^32, ix - 1), hence noise(seed + 73856093 mod 2^32, x) = noise(seed, x + 1).
C23_GradientByState ==
    (Called /\ ReadsLattice(Last)) =>
        /\ \A i \in CellCorners(Last.dim, Last.out.lo, Last.out.hi) :
               /\ LatticeGradient(Last.dim, Last.seed, i) =
                      DrawnAt(Last.dim, StateOf(Last.dim, Last.seed, i))
               /\ LatticeGradient(Last.dim, Last.seed, i) =
                      LatticeGradient(Last.dim, StateOf(Last.dim, Last.seed, i), Origin(Last.dim))
        /\ Last.dim = 1 =>
               \A s \in ShiftSeeds(Last.seed) : \A i \in {Last.out.lo[1], Last.out.hi[1]} :
                   /\ StateOf(1, s, <<i>>) = StateOf(1, SeedShifted(s), <<i - 1>>)
                   /\ random_gradient_1d(s, i) = random_gradient_1d(SeedShifted(s), i - 1)
        /\ (Last.dim = 1 /\ Last.op = "noise") =>
               /\ Last.out.ret =
                      NoiseValue(1, SeedShifted(Last.seed), <<RSub[Last.coord[1], One]>>)
               /\ \A s \in ShiftSeeds(Last.seed) :
                      NoiseValue(1, SeedShifted(s), Last.coord) =
                          NoiseValue(1, s, <<RAdd[Last.coord[1], One]>>)

\* a 1D noise call at a point of negative floor inside a cell: the value is not
\* 0, the low corner index is negative and wraps in the product, the two
\* corners have different states, and the shifted seed alone (same x) gives
\* another value
C23_Witness ==
    /\ Called /\ Last.op = "noise" /\ Last.dim = 1
    /\ Last.out.lo[1] < 0 /\ Frac(Last.coord[1]) # Zero
    /\ Last.out.ret # Zero
    /\ StateOf(1, Last.seed, Last.out.lo) # StateOf(1, Last.seed, Last.out.hi)
    /\ NoiseValue(1, SeedShifted(Last.seed), Last.coord) # Last.out.ret
    /\ NoiseValue(1, SeedShifted(Last.seed), <<RSub[Last.coord[1], One]>>) = Last.out.ret
====
